---- MODULE Spec2Model ----
(***************************************************************************)
(* Verification model of the deterministic diversification and simulation *)
(* engine of the ai-generated-users repository: the diet shape normalizer, *)
(* the diversification engine, the weekly outcome simulators and the meal  *)
(* composer.                                                               *)
(*                                                                         *)
(* Numbers.  Python floats are modelled as exact fixed-point integers:     *)
(*   diet macros        in tenths          (2000.2 kcal  -> 20002)         *)
(*   body metrics       in thousandths     (75.004 kg    -> 75004)         *)
(* round(x, n) is modelled as round-half-even on the exact value, which is *)
(* what Python's round() does when the float is the exact value.           *)
(*                                                                         *)
(* Randomness.  random.Random(seed) is modelled as a deterministic stream  *)
(* Draw(seed, k) of lattice indices 0..RndGrid-1; random() is              *)
(* Draw/RndGrid and uniform(a,b) a lattice point of [a,b].  The seed is an *)
(* injective code of the strings hashed by the source.                     *)
(***************************************************************************)
EXTENDS Integers, Sequences, FiniteSets, TLC

VARIABLES
    dpc,      \* diet engine: "idle" | "shaped" | "cand" | "done" | "RecursionError"
    obj,      \* the diet mapping being normalised / diversified (mutated in place)
    dargs,    \* arguments of the running diversify_meals call
    depth,    \* number of recursive re-invocations of the running call
    stored,   \* the diet document of the previous call (store), or NoDiet
    split,    \* _split on its own: the last total, draws and returned parts
    log,      \* weekly outcome simulators: the last returned weekly log
    meal,     \* meal composer: the last returned composed meal
    used,     \* meal composer: the module-level set USED_MEAL_TEXTS
    norm,     \* normalisers applied to their own output: input, first and last result
    wk,       \* a week-sequence builder's arguments and the labels it returned
    yr,       \* a yearly orchestrator run: its position, locals and what it has recorded
    db,       \* the document store: baseline personas and the per-week documents
    par,      \* the personas of one week run side by side on one fingerprint set
    ace,      \* a diet client call: the provider's replies and what the call gave back
    loose,    \* a simulator call on a loosely typed persona record and its outcome
    gain,     \* a simulated week of a muscle-gain persona: muscle before and after, weight draw
    cm,       \* one _compose_meal call taken attempt by attempt: counter, compositions drawn, result
    uq        \* USED_MEAL_TEXTS and the texts _compose_meal returned in one process run

\* the variables of the later sections, left alone by the sections above them
extVars == <<norm, wk, yr, db, par, ace, loose, gain, cm, uq>>
\* the variables of the diet engine, the simulators and the composer
coreVars == <<dpc, obj, dargs, depth, stored, split, log, meal, used>>
vars == <<dpc, obj, dargs, depth, stored, split, log, meal, used, extVars>>
dietVars == <<dpc, obj, dargs, depth, stored>>
mealVars == <<meal, used>>

(***************************************************************************)
(* Bounds of the model                                                     *)
(***************************************************************************)
RndGrid == 10          \* lattice points per random draw
NumPids == 8           \* persona ids P1..
NumWeeks == 2          \* week ids W1..
MaxNonce == 1          \* largest nonce a caller passes
RecursionLimit == 6    \* stands for the interpreter's recursion limit
MaxUsed == 2           \* meal texts one process run records before it ends
NumStreams == 400      \* random streams a meal composition is drawn from
UniqPids == 2          \* persona ids whose meals one process run composes repeatedly
MaxCalls == 3          \* calls of _compose_meal in one process run

(***************************************************************************)
(* Arithmetic helpers                                                      *)
(***************************************************************************)
Abs(x) == IF x < 0 THEN -x ELSE x
Max(a, b) == IF a >= b THEN a ELSE b
Min(a, b) == IF a <= b THEN a ELSE b

\* round(base + n/d) to an integer, ties to even (d > 0, any sign of n)
RoundSum(base, n, d) ==
    LET q == n \div d
        r == n % d
        lo == base + q
    IN  IF 2 * r < d THEN lo
        ELSE IF 2 * r > d THEN lo + 1
        ELSE IF lo % 2 = 0 THEN lo ELSE lo + 1

\* round(n/d) to an integer, ties to even
RoundDiv(n, d) == RoundSum(0, n, d)

(***************************************************************************)
(* Seeded random streams                                                   *)
(***************************************************************************)
\* purposes hashed into the seed string
PurposeCode(p) ==
    CASE p = "diet" -> 1 [] p = "logs" -> 2 [] p = "week1" -> 3
      [] p = "progress" -> 4 [] p = "meal" -> 5 [] OTHER -> 6

\* a seed that also depends on how often the engine was entered (process state)
_sha_seed_CallCount(pid, week_id, purpose, nonce) ==
    ((pid * 64 + week_id) * 8 + PurposeCode(purpose)) * 1024 + nonce + depth

\* _sha_seed(f"{pid}|{week_id}|diet|{nonce}"): injective in its parts
_sha_seed(pid, week_id, purpose, nonce) ==
    ((pid * 64 + week_id) * 8 + PurposeCode(purpose)) * 1024 + nonce

\* k-th output of random.Random(seed), as a lattice index 0..RndGrid-1
Draw(seed, k) ==
    LET a == ((seed % 65521) * 7919 + k * 104729 + 12345) % 65521
        b == (a * ((seed % 251) + 3 * k + 17) + seed \div 7 + k * k) % 32749
    IN  (b \div 7) % RndGrid

\* rnd.uniform(lo, hi) on the lattice, lo and hi in the caller's unit
Uniform(lo, hi, j) == lo + ((hi - lo) * j) \div (RndGrid - 1)

(***************************************************************************)
(* Loosely typed values of the mappings handed to the engine               *)
(***************************************************************************)
Num(x) == [k |-> "num", v |-> x]           \* a float
RNumStr(x) == [k |-> "numstr", v |-> x]    \* a string float() accepts
RNone == [k |-> "none", v |-> 0]           \* None
RAbsent == [k |-> "absent", v |-> 0]       \* key not in the mapping
REmpty == [k |-> "empty", v |-> 0]         \* "" or blank string
RText == [k |-> "text", v |-> 0]           \* value float() rejects

\* the six macro field suffixes, in the source's order
MKeys == <<"kcal_target_kcal", "carbs_g", "fat_g", "protein_g", "fiber_g", "sodium_mg">>
MKeySet == {MKeys[i] : i \in 1..6}
\* the meal tags "1st".."4th"
Slots == 1..4

SAUDI_MEAL_NAMES ==
    << "Masoub (banana+dates+milk)", "Chicken Kabsa (lean rice)", "Jareesh with laban",
       "Ful medames + tamees", "Balila cup (chickpeas)", "Grilled Hammour + rice + salad",
       "Labneh + cucumbers + olives + bread", "Tuna salad + lemon + olive oil",
       "Margoog (light) + salad", "Thareed (lean beef + veg)", "Harees (light) + salad",
       "Egg shakshouka + bread", "Date + laban snack" >>

NoNested == [mk \in MKeySet |-> RAbsent]
\* a meal-name value: a string (core text, padded or not), None, absent or a nested dict
Str(core, pad) == [k |-> "str", s |-> core, pad |-> pad, d |-> NoNested]
NameNone == [k |-> "none", s |-> "", pad |-> FALSE, d |-> NoNested]
NameAbsent == [k |-> "absent", s |-> "", pad |-> FALSE, d |-> NoNested]
NameDict(d) == [k |-> "dict", s |-> "", pad |-> FALSE, d |-> d]

DefaultNote == "Saudi-inspired plan. Adjust portions if training load changes."

\* _f(v, default)
_f(v, default) ==
    IF v.k \in {"num", "numstr"} THEN v.v ELSE default

\* _ensure_meal_label(val, idx), idx counted from 0
_ensure_meal_label(val, idx) ==
    IF val.k = "str" /\ val.s # ""
    THEN Str(val.s, FALSE)
    ELSE Str(SAUDI_MEAL_NAMES[(idx % Len(SAUDI_MEAL_NAMES)) + 1], FALSE)

\* _pull_nested_meal_num(obj, f"{m}_meal_{mk}", 0.0), read after the meal name was set
_pull_nested_meal_num(o, i, mk, fallback) ==
    IF o.meal[mk][i].k # "absent" THEN _f(o.meal[mk][i], fallback)
    ELSE LET nested == o.names[i]
         IN  IF nested.k = "dict" /\ nested.d[mk].k # "absent"
             THEN _f(nested.d[mk], fallback)
             ELSE fallback

\* sum of the four per-meal values of one macro
MealSum(o, mk) ==
    o.meal[mk][1].v + o.meal[mk][2].v + o.meal[mk][3].v + o.meal[mk][4].v

\* ensure_diet_shape(obj)
ensure_diet_shape(o) ==
    LET t1 == [mk \in MKeySet |-> Num(_f(o.total[mk], 0))]
        n1 == [i \in Slots |-> _ensure_meal_label(o.names[i], i - 1)]
        o1 == [o EXCEPT !.total = t1, !.names = n1]
        m1 == [mk \in MKeySet |-> [i \in Slots |-> Num(_pull_nested_meal_num(o1, i, mk, 0))]]
        o2 == [o1 EXCEPT !.meal = m1]
        t2 == [mk \in MKeySet |->
                 IF o2.total[mk].v = 0 THEN Num(MealSum(o2, mk)) ELSE o2.total[mk]]
    IN  [o2 EXCEPT !.total = t2,
                   !.note = IF o.note = "" THEN DefaultNote ELSE o.note]

(***************************************************************************)
(* Diversification engine (utils_json_v12.py)                              *)
(***************************************************************************)
\* substrings the source tests a lower-cased goal for
GoalWords(goal) ==
    CASE goal = "fat loss" -> {"fat", "loss"}
      [] goal = "muscle gain" -> {"muscle", "gain"}
      [] goal = "recomp" -> {"recomp"}
      [] goal = "lose fat and build muscle" -> {"fat", "muscle"}
      [] OTHER -> {}
\* `sub in goal.lower()`
Contains(goal, sub) == sub \in GoalWords(goal)

Clamp(x, lo, hi) == Max(lo, Min(hi, x))

\* the goal kcal without the final max/min
_goal_kcal_NoClamp(w, goal) ==
    LET base0 == 28 * w
        base1 == IF Contains(goal, "fat") THEN base0 - 25000 ELSE base0
    IN  IF Contains(goal, "muscle") THEN base1 + 15000 ELSE base1

\* _goal_kcal(w_kg, goal), w in hundredths of kg, result in hundredths of kcal
_goal_kcal(w, goal) ==
    LET base0 == 28 * w
        base1 == IF Contains(goal, "fat") THEN base0 - 25000 ELSE base0
        base2 == IF Contains(goal, "muscle") THEN base1 + 15000 ELSE base1
    IN  Max(160000, Min(360000, base2))

\* _jitter(value, pct, rnd): value = num/den tenths, pct in thousandths, result in tenths
_jitter(num, den, pct, j) ==
    RoundDiv(num * Uniform(1000 - pct, 1000 + pct, j), den * 1000)

\* weights without the floor of 0.3: x = random() alone (1 each when all four are 0)
_dirichlet4_NoFloor(js) ==
    [i \in Slots |-> IF \A k \in Slots : js[k] = 0 THEN 1 ELSE 10 * js[i]]

\* _dirichlet4(rnd): js are the four random() draws; x = random() + 0.3 in units
\* of 1/(10*RndGrid), the weight of meal i is xs[i] / sum(xs)
_dirichlet4(js) ==
    [i \in Slots |-> 10 * js[i] + 3 * RndGrid]

\* _split(total, rnd): total and parts in tenths, js the four draws it consumes
_split(total, js) ==
    IF total <= 0 THEN [i \in Slots |-> 0]
    ELSE LET xs == _dirichlet4(js)
             s == xs[1] + xs[2] + xs[3] + xs[4]
         IN  [i \in Slots |-> RoundDiv(total * xs[i], s)]

\* the four consecutive outputs k..k+3 of the stream
Draws4(seed, k) == [i \in Slots |-> Draw(seed, k + i - 1)]

\* _re_totals_with_jitter(obj, persona, rnd): the six totals in tenths (draws 0..4)
_re_totals_with_jitter(persona, seed) ==
    LET w == _f(persona.Weight_kg, 7500)
        goal == persona.Primary_goal
        kcal == _jitter(_goal_kcal(w, goal), 10, 60, Draw(seed, 0))
        p == IF Contains(goal, "muscle")
             THEN _jitter(Min(Max(19 * w, 110000), 190000), 100, 60, Draw(seed, 1))
             ELSE IF Contains(goal, "fat")
             THEN _jitter(Min(Max(18 * w, 100000), 180000), 100, 60, Draw(seed, 1))
             ELSE _jitter(Min(Max(17 * w, 95000), 175000), 100, 60, Draw(seed, 1))
        f == IF Contains(goal, "muscle")
             THEN _jitter(kcal * 3, 100, 80, Draw(seed, 2))
             ELSE IF Contains(goal, "fat")
             THEN _jitter(kcal, 30, 80, Draw(seed, 2))
             ELSE _jitter(kcal * 7, 225, 80, Draw(seed, 2))
        c == Max(900, RoundDiv(kcal - (p * 4 + f * 9), 4))
        fiber == RoundDiv(Uniform(2400, 3600, Draw(seed, 3)), 10)
        sodium == RoundDiv(Max(150000, Min(320000,
                      200000 + (w - 7000) * 8 + Uniform(-35000, 35000, Draw(seed, 4)))), 100)
    IN  [mk \in MKeySet |->
           CASE mk = "kcal_target_kcal" -> kcal
             [] mk = "carbs_g" -> c
             [] mk = "fat_g" -> f
             [] mk = "protein_g" -> p
             [] mk = "fiber_g" -> fiber
             [] OTHER -> sodium * 10]

\* rnd.randrange(0, len(SAUDI_MEAL_NAMES) - 4): draw 5 of the stream
NameOffset(seed) ==
    (Draw(seed, 5) * (Len(SAUDI_MEAL_NAMES) - 4)) \div RndGrid

\* every slot takes the first name of the window
ChosenName_First(offset, i) == SAUDI_MEAL_NAMES[offset + 1]

\* chosen = [SAUDI_MEAL_NAMES[offset + i] for i in range(4)], slot i counted from 1
ChosenName(offset, i) == SAUDI_MEAL_NAMES[offset + i]

\* position of a macro in MKeys (the order the six splits draw in)
MIndex(mk) == CHOOSE i \in 1..6 : MKeys[i] = mk

\* a pass that builds a new mapping of the 34 schema fields and leaves the input alone
DiversifyPass_NewObject(o, pid, week_id, persona, nonce) ==
    LET seed == _sha_seed(pid, week_id, "diet", nonce)
        tot == _re_totals_with_jitter(persona, seed)
        offset == NameOffset(seed)
    IN  [total |-> [mk \in MKeySet |-> Num(tot[mk])],
         names |-> [i \in Slots |-> Str(ChosenName(offset, i), FALSE)],
         meal |-> [mk \in MKeySet |->
                     LET sp == _split(tot[mk], Draws4(seed, 6 + 4 * (MIndex(mk) - 1)))
                     IN  [i \in Slots |-> Num(sp[i])]],
         note |-> ""]

\* one pass of diversify_meals over obj: steps 1-3 (totals, names, splits)
DiversifyPass(o, pid, week_id, persona, nonce) ==
    LET seed == _sha_seed(pid, week_id, "diet", nonce)
        tot == _re_totals_with_jitter(persona, seed)
        offset == NameOffset(seed)
    IN  [o EXCEPT
           !.total = [mk \in MKeySet |-> Num(tot[mk])],
           !.names = [i \in Slots |-> Str(ChosenName(offset, i), FALSE)],
           !.meal = [mk \in MKeySet |->
                       LET sp == _split(tot[mk], Draws4(seed, 6 + 4 * (MIndex(mk) - 1)))
                       IN  [i \in Slots |-> Num(sp[i])]]]

\* _all_meals_identical(obj)
_all_meals_identical(o) ==
    /\ \A i \in 2..4 : \A mk \in MKeySet : o.meal[mk][i].v = o.meal[mk][1].v
    /\ \A i \in 2..4 : o.names[i].s = o.names[1].s

\* a similarity test that needs the same names and close totals at once
_similar_overview_Both(a, hasB, b) ==
    /\ hasB
    /\ \A i \in Slots : a.names[i].s = b.names[i].s
    /\ \A mk \in MKeySet : a.total[mk].v = b.total[mk].v

\* _similar_overview(a, b); hasB is `bool(b)`
_similar_overview(a, hasB, b) ==
    /\ hasB
    /\ \/ \A i \in Slots : a.names[i].s = b.names[i].s
       \/ \A mk \in MKeySet : a.total[mk].v = b.total[mk].v

(***************************************************************************)
(* Inputs of the diet engine                                               *)
(***************************************************************************)
Pids == 1..NumPids
Weeks == 1..NumWeeks

\* persona records as the diet engine reads them (Weight_kg in hundredths of kg)
DietPersonas ==
    << [Weight_kg |-> Num(8000), Primary_goal |-> "muscle gain"],
       [Weight_kg |-> Num(4500), Primary_goal |-> "fat loss"],
       [Weight_kg |-> Num(14000), Primary_goal |-> "muscle gain"],
       [Weight_kg |-> RAbsent, Primary_goal |-> ""],
       [Weight_kg |-> Num(6200), Primary_goal |-> "fat loss"],
       [Weight_kg |-> RNumStr(7550), Primary_goal |-> "recomp"],
       [Weight_kg |-> Num(9000), Primary_goal |-> "lose fat and build muscle"],
       [Weight_kg |-> RText, Primary_goal |-> "maintenance"] >>
PersonaOf(pid) == DietPersonas[((pid - 1) % Len(DietPersonas)) + 1]

\* values a provider puts (or omits) in a total field
RawTotalVals == {RAbsent, RNone, RText, Num(0), Num(20000), RNumStr(18005)}
\* values a provider puts (or omits) in a per-meal macro field
RawMealPatterns == {"absent", "zero", "equal", "mixed", "strings"}
RawMealVal(pat, mk, i) ==
    CASE pat = "absent" -> RAbsent
      [] pat = "zero" -> Num(0)
      [] pat = "equal" -> Num(5000)
      [] pat = "mixed" -> IF i = 3 THEN RNone ELSE Num(1000 * i + 7 * MIndex(mk))
      [] OTHER -> IF i = 2 THEN RText ELSE RNumStr(4500 + i)
\* values a provider puts (or omits) in the four meal-name fields
RawNamePatterns == {"absent", "empty", "same", "padded", "nested"}
RawName(pat, i) ==
    CASE pat = "absent" -> NameAbsent
      [] pat = "empty" -> Str("", FALSE)
      [] pat = "same" -> Str("Kabsa", FALSE)
      [] pat = "padded" -> IF i = 4 THEN Str("", TRUE) ELSE Str(SAUDI_MEAL_NAMES[i + 8], TRUE)
      [] OTHER -> IF i = 1 THEN NameNone ELSE NameDict([mk \in MKeySet |-> Num(100 * i)])

\* the mappings extract_first_json / _fallback hand to ensure_diet_shape
RawDiet(tk, to, mp, np, note) ==
    [total |-> [mk \in MKeySet |-> IF mk = "kcal_target_kcal" THEN tk ELSE to],
     meal |-> [mk \in MKeySet |-> [i \in Slots |-> RawMealVal(mp, mk, i)]],
     names |-> [i \in Slots |-> RawName(np, i)],
     note |-> note]

\* _fallback(persona) of acegpt_client_v12.py
_fallback == RawDiet(Num(0), Num(0), "zero", "empty", "Fallback plan.")

BlankObj == RawDiet(RAbsent, RAbsent, "absent", "absent", "")
NoArgs == [raw |-> BlankObj, pid |-> 0, week_id |-> 0, persona |-> DietPersonas[1],
           last |-> "none", nonce |-> 0]
NoDiet == [pid |-> 0, week_id |-> 0, diet |-> BlankObj]
NoSplit == [total |-> 0, js |-> [i \in Slots |-> 0], parts |-> [i \in Slots |-> 0]]
NoLog == [src |-> "none"]
NoMeal == [slot |-> 0]
NoNorm == [fn |-> "none", n |-> 0, in |-> [o |-> BlankObj, d |-> <<>>],
           once |-> [o |-> BlankObj, d |-> <<>>], out |-> [o |-> BlankObj, d |-> <<>>]]
NoWeeks == [fn |-> "none", start |-> [year |-> 0, week |-> 0, pad |-> FALSE], n |-> 0,
            inc |-> FALSE, seq |-> <<>>]

\* bounds of the orchestrator runs
YearPids == 2              \* personas list_persona_ids returns
YearWeeks == 2             \* TOTAL_WEEKS / N_WEEKS
MaxRuns == 2               \* times an orchestrator is run on the same store
Variants == 2              \* distinct results a generator or simulator can return
YPids == 1..YearPids
Slots3 == YPids \X (0..YearWeeks)
\* the seeded body state (weight, muscle, fat as one level) of a baseline persona
BaseBody(pid) == 10 * pid
\* a document never written has n = 0
NoDoc == [n |-> 0, v |-> 0, pre |-> 0, post |-> 0]
SeededStore ==
    [base |-> [pid \in YPids |-> BaseBody(pid)],
     diet |-> [s \in Slots3 |-> NoDoc],
     logs |-> [s \in Slots3 |-> NoDoc],
     up |-> [s \in Slots3 |-> NoDoc]]
NoRun == [orch |-> "none", inc |-> FALSE, run |-> 0, w |-> 0, pi |-> 0, phase |-> "idle",
          persona |-> 0, src |-> "none", attempt |-> 0, tries |-> <<>>,
          used_diet_fps |-> {}, used_text_fps |-> {}, logs |-> NoDoc,
          visited |-> {}, failed |-> {}]
ParPids == 3               \* personas of a week that run side by side
PPids == 1..ParPids
\* a week whose personas have not started; fp 0 is no fingerprint
NoWeek == [used_diet_fps |-> {},
           proc |-> [pid \in PPids |-> [pc |-> "start", attempt |-> 0, fp |-> 0,
                                       seen |-> {}, fresh |-> 0]]]
\* no client call in progress
NoCall == [fn |-> "none", replies |-> <<>>, kind |-> "none", diet |-> BlankObj]
\* no simulator call on a loose persona in progress
NoSim == [fn |-> "none", persona |-> <<>>, reply |-> "none", kind |-> "none", keys |-> {}]
\* no muscle-gain week simulated
NoGain == [fn |-> "none", adher |-> 0, pre_m |-> 0, post_m |-> 0, dW |-> 0]
\* no _compose_meal call in progress
NoCompose == [pc |-> "idle", slot |-> 0, attempt |-> 0, drawn |-> 0, last |-> [salt |-> 0, stream |-> 0, kcal |-> 0], ret |-> [salt |-> 0, stream |-> 0, kcal |-> 0]]
\* a process run that has composed no meal
NoTexts == [used |-> {}, rets |-> <<>>]

\* the mappings get_diet_from_ace normalises before diversifying
DietInputs ==
    { _fallback,
      RawDiet(Num(20000), Num(800), "equal", "same", ""),
      RawDiet(RNumStr(18005), RNone, "mixed", "padded", "Provider note.") }
LastKinds == {"none", "stored", "alias"}

\* every raw mapping the normaliser is exercised on
RawDiets ==
    { RawDiet(tk, to, mp, np, note) :
        tk \in RawTotalVals, to \in RawTotalVals,
        mp \in RawMealPatterns, np \in RawNamePatterns, note \in {"", "Provider note."} }

(***************************************************************************)
(* Diet engine: state machine                                              *)
(***************************************************************************)
Init ==
    /\ dpc = "idle"
    /\ obj = BlankObj
    /\ dargs = NoArgs
    /\ depth = 0
    /\ stored = NoDiet
    /\ split = NoSplit
    /\ log = NoLog
    /\ meal = NoMeal
    /\ used = {}
    /\ norm = NoNorm
    /\ wk = NoWeeks
    /\ yr = NoRun
    /\ db = SeededStore
    /\ par = NoWeek
    /\ ace = NoCall
    /\ loose = NoSim
    /\ gain = NoGain
    /\ cm = NoCompose
    /\ uq = NoTexts

\* the object last_week_obj refers to during the running call
LastObj == IF dargs.last = "alias" THEN obj ELSE stored.diet
HasLast == dargs.last # "none"

\* step 4 of diversify_meals: the condition of the recursive re-invocation
NeedsRotation == _all_meals_identical(obj) \/ _similar_overview(obj, HasLast, LastObj)

\* get_diet_from_ace: ensure_diet_shape, then the outermost diversify_meals pass
DiversifyCall ==
    /\ dpc = "idle"
    /\ \E raw \in DietInputs, pid \in Pids, week \in Weeks,
          nonce \in 0..MaxNonce, last \in LastKinds :
          /\ stored # NoDiet => pid = stored.pid
          /\ last = "stored" =>
                /\ stored # NoDiet
                /\ stored.week_id \in {week, week - 1}
          /\ dargs' = [raw |-> raw, pid |-> pid, week_id |-> week, persona |-> PersonaOf(pid),
                       last |-> last, nonce |-> nonce]
          /\ obj' = DiversifyPass(ensure_diet_shape(raw), pid, week, PersonaOf(pid), nonce)
    /\ dpc' = "cand"
    /\ depth' = 0
    /\ UNCHANGED <<stored, split, log, meal, used, extVars>>

\* `return diversify_meals(obj, ..., nonce=nonce+1)`: one more pass over the same obj
Recurse ==
    /\ dpc = "cand"
    /\ NeedsRotation
    /\ depth < RecursionLimit
    /\ dargs' = [dargs EXCEPT !.nonce = dargs.nonce + 1]
    /\ obj' = DiversifyPass(obj, dargs.pid, dargs.week_id, dargs.persona, dargs.nonce + 1)
    /\ depth' = depth + 1
    /\ UNCHANGED <<dpc, stored, split, log, meal, used, extVars>>

\* the interpreter refuses a further frame: RecursionError propagates to the caller
Overflow ==
    /\ dpc = "cand"
    /\ NeedsRotation
    /\ depth = RecursionLimit
    /\ dpc' = "RecursionError"
    /\ UNCHANGED <<obj, dargs, depth, stored, split, log, meal, used, extVars>>

\* `return obj`
Return ==
    /\ dpc = "cand"
    /\ ~NeedsRotation
    /\ dpc' = "done"
    /\ UNCHANGED <<obj, dargs, depth, stored, split, log, meal, used, extVars>>

\* the orchestrator's write_diet(db, pid, w, diet)
WriteDiet ==
    /\ dpc = "done"
    /\ stored' = [pid |-> dargs.pid, week_id |-> dargs.week_id, diet |-> obj]
    /\ dpc' = "idle"
    /\ obj' = BlankObj
    /\ dargs' = NoArgs
    /\ depth' = 0
    /\ UNCHANGED <<split, log, meal, used, extVars>>

\* the caller drops the result (fingerprint retry) or the error
Discard ==
    /\ dpc \in {"done", "RecursionError"}
    /\ dpc' = "idle"
    /\ obj' = BlankObj
    /\ dargs' = NoArgs
    /\ depth' = 0
    /\ UNCHANGED <<stored, split, log, meal, used, extVars>>

NextDiet == DiversifyCall \/ Recurse \/ Overflow \/ Return \/ WriteDiet \/ Discard

SpecDiet == Init /\ [][NextDiet]_vars

(***************************************************************************)
(* The normaliser on its own                                               *)
(***************************************************************************)
\* ensure_diet_shape(raw) for any provider mapping; dargs.raw keeps the input
NormalizeRaw ==
    /\ dpc = "idle"
    /\ \E raw \in RawDiets :
          /\ obj' = ensure_diet_shape(raw)
          /\ dargs' = [NoArgs EXCEPT !.raw = raw]
    /\ dpc' = "shaped"
    /\ UNCHANGED <<depth, stored, split, log, meal, used, extVars>>

\* the caller takes the normalised diet
TakeShaped ==
    /\ dpc = "shaped"
    /\ dpc' = "idle"
    /\ obj' = BlankObj
    /\ dargs' = NoArgs
    /\ UNCHANGED <<depth, stored, split, log, meal, used, extVars>>

NextShape == NormalizeRaw \/ TakeShaped

SpecShape == Init /\ [][NextShape]_vars

(***************************************************************************)
(* _split on its own, for every draw of the random stream                  *)
(***************************************************************************)
\* totals (tenths) in the ranges _re_totals_with_jitter produces
SplitTotals == {243, 900, 1502, 15040, 20002, 21004, 25000, 38160}

SplitTotal ==
    /\ split = NoSplit
    /\ \E total \in SplitTotals, js \in [Slots -> 0..(RndGrid - 1)] :
          split' = [total |-> total, js |-> js, parts |-> _split(total, js)]
    /\ UNCHANGED <<dietVars, log, mealVars, extVars>>

\* the caller takes the parts
TakeSplit ==
    /\ split # NoSplit
    /\ split' = NoSplit
    /\ UNCHANGED <<dietVars, log, mealVars, extVars>>

NextSplit == SplitTotal \/ TakeSplit

SpecSplit == Init /\ [][NextSplit]_vars

(***************************************************************************)
(* Weekly outcome simulators                                               *)
(*                                                                         *)
(* Body metrics are in thousandths (kg or percentage points), kcal in      *)
(* tenths, hours in hundredths.  Adherence numbers are in hundredths.      *)
(***************************************************************************)
\* round(base + (p + f)/d) to an integer, ties to even, for a fraction 0 <= f < 1
\* of which only fnz = (f # 0) matters; d is even
RoundFrac(base, p, fnz, d) ==
    LET q == p \div d
        r == p % d
        lo == base + q
    IN  IF 2 * r < d THEN lo
        ELSE IF 2 * r > d THEN lo + 1
        ELSE IF fnz THEN lo + 1
        ELSE IF lo % 2 = 0 THEN lo ELSE lo + 1

\* words a persona's Adherence_propensity may hold instead of a number
AdhHigh == [k |-> "text", v |-> 1]
AdhMedium == [k |-> "text", v |-> 2]
AdhLow == [k |-> "text", v |-> 3]
IsNumber(v) == v.k \in {"num", "numstr"}

\* `float(x or default)` of claude_client_v12.py, for the values float() accepts
OrDefault(v, default) == IF IsNumber(v) /\ v.v # 0 THEN v.v ELSE default

\* a weekly log: the eleven numeric fields of the schema and where it came from
Log(src, accepted, persona, daily, pre, post, delta, sleep) ==
    [src |-> src, accepted |-> accepted, persona |-> persona,
     daily_avg_kcal |-> daily,
     Pre_weight_kg |-> pre[1], Pre_muscle_kg |-> pre[2], Pre_fat_pct |-> pre[3],
     Post_weight_kg |-> post[1], Post_muscle_kg |-> post[2], Post_fat_pct |-> post[3],
     delta_weight_kg |-> delta[1], delta_muscle_kg |-> delta[2], delta_fat_pct |-> delta[3],
     sleep_avg_hours |-> sleep]

\* ---- claude_client_v12.py ------------------------------------------------
\* dW and dM of the fallback in units of 0.0001 kg (a = adherence in hundredths)
FallbackDeltas(goal, a, jW, jM) ==
    IF Contains(goal, "fat")
    THEN [dW |-> -35 * a + Uniform(-800, 200, jW), dM |-> 3 * a + Uniform(-200, 500, jM)]
    ELSE IF Contains(goal, "muscle")
    THEN [dW |-> 20 * a + Uniform(-500, 1200, jW), dM |-> 10 * a + Uniform(0, 1000, jM)]
    ELSE [dW |-> -500 + 10 * (a - 50) + Uniform(-600, 600, jW),
          dM |-> 5 * a + Uniform(-200, 600, jM)]

\* the fat-mass balance of the fallback.  With W, F the pre weight and pre fat in
\* thousandths, d = dW in 0.0001 kg and q = 10W + d the post weight,
\*   fat_kg / post_w * 100 = F + d * (10c - F) / q   (thousandths of a point)
\* for c = 7500 when dW < 0 and c = 3000 otherwise; it is clamped to [5, 60].
\* Returns Post_fat_pct and delta_fat_pct in hundredths.
FallbackFat(W, F, d) ==
    LET q == 10 * W + d
        X == d * ((IF d < 0 THEN 75000 ELSE 30000) - F)
        below == (X \div q) < 5000 - F
        above == -((-X) \div q) > 60000 - F
    IN  IF below THEN [post |-> 500, delta |-> RoundDiv(5000 - F, 10)]
        ELSE IF above THEN [post |-> 6000, delta |-> RoundDiv(60000 - F, 10)]
        ELSE [post |-> RoundSum(F \div 10, (F % 10) * q + X, 10 * q),
              delta |-> RoundDiv(X, 10 * q)]

\* _rng(pid, week_id, salt)
_rng(pid, week_id, salt) == _sha_seed(pid, week_id, "logs", salt)

\* simulate_week_with_claude_fallback(persona, diet, workouts_ids, pid, week_id, salt)
simulate_week_with_claude_fallback(persona, kcalv, pid, week_id, salt) ==
    LET rng == _rng(pid, week_id, salt)
        pre_w == OrDefault(persona.Weight_kg, 75000)
        pre_m == OrDefault(persona.Muscle_mass_kg, 30000)
        pre_f == OrDefault(persona.Fat_percent, 25000)
        adher == OrDefault(persona.Adherence_propensity, 65)
        kcal == OrDefault(kcalv, 20000)
        daily == RoundDiv(kcal * (8200 + 38 * adher) + 10000 * Uniform(-600, 600, Draw(rng, 0)),
                          10000)
        dd == FallbackDeltas(persona.Primary_goal, adher, Draw(rng, 1), Draw(rng, 2))
        fat == FallbackFat(pre_w, pre_f, dd.dW)
        sleep == RoundDiv(1000 * persona.Sleep_hours + 20 * (adher - 50)
                            + Uniform(-2500, 2500, Draw(rng, 3)), 100)
    IN  Log("fallback", FALSE, persona, daily,
            <<10 * RoundDiv(pre_w, 10), 10 * RoundDiv(pre_m, 10), 10 * RoundDiv(pre_f, 10)>>,
            <<10 * RoundDiv(10 * pre_w + dd.dW, 100), 10 * RoundDiv(10 * pre_m + dd.dM, 100),
              10 * fat.post>>,
            <<10 * RoundDiv(dd.dW, 100), 10 * RoundDiv(dd.dM, 100), 10 * fat.delta>>,
            sleep)

\* ---- utils_sim_dual.py ---------------------------------------------------
\* _to_float(x, default)
_to_float(x, default) == IF IsNumber(x) THEN x.v ELSE default

\* _adherence_factor(str(persona.get("Adherence_propensity", "Moderate"))), hundredths
_adherence_factor(a) ==
    CASE a.k = "absent" -> 95
      [] a = AdhHigh -> 102
      [] a = AdhMedium -> 95
      [] a = AdhLow -> 85
      [] IsNumber(a) -> Max(75, Min(105, a.v))
      [] OTHER -> 90

\* the goal range _goal_deltas would give if muscle gain were read as maintenance
_goal_deltas_Maintenance(goal) ==
    <<[lo |-> -200, hi |-> 200], [lo |-> -150, hi |-> 150], [lo |-> -200, hi |-> 200]>>

\* _goal_deltas(goal): the three ranges in thousandths
_goal_deltas(goal) ==
    IF Contains(goal, "fat") \/ Contains(goal, "cut") \/ Contains(goal, "loss")
    THEN <<[lo |-> -1000, hi |-> -200], [lo |-> 0, hi |-> 200], [lo |-> -1000, hi |-> -200]>>
    ELSE IF Contains(goal, "muscle") \/ Contains(goal, "gain") \/ Contains(goal, "bulk")
    THEN <<[lo |-> -100, hi |-> 600], [lo |-> 100, hi |-> 450], [lo |-> -300, hi |-> 100]>>
    ELSE IF Contains(goal, "recomp") \/ Contains(goal, "re-com")
    THEN <<[lo |-> -400, hi |-> 300], [lo |-> 50, hi |-> 250], [lo |-> -600, hi |-> 0]>>
    ELSE <<[lo |-> -200, hi |-> 200], [lo |-> 0, hi |-> 150], [lo |-> -200, hi |-> 200]>>

\* _days_bonus(days_per_week), hundredths
_days_bonus(days_per_week) ==
    IF days_per_week >= 5 THEN 110
    ELSE IF days_per_week = 4 THEN 105
    ELSE IF days_per_week = 3 THEN 100
    ELSE 95

\* _sleep_bonus(hours), hours in tenths, result in hundredths
_sleep_bonus(hours) ==
    IF hours >= 80 THEN 106
    ELSE IF hours >= 70 THEN 103
    ELSE IF hours >= 60 THEN 100
    ELSE 94

\* _clamp(x, lo, hi)
_clamp(x, lo, hi) == Max(lo, Min(hi, x))

\* _rounded(pre + dx, 2) in hundredths for dx = u * g * (1 + k * tighten), where pre
\* and u are in thousandths and T8 is tighten in units of 1e-8.  The value is
\*   pre/10 + (u*m + c*u*T8/10000) / d
\* with (m, c, d) = (50000, 3, 500000) for g = 1, k = 0.6; (12500, 1, 125000) for
\* g = 1, k = 0.8; (37500, 3, 625000) for g = 0.6, k = 0.8; (100000, 7, 1000000) for
\* g = 1, k = 0.7.  T8 is split in two so that no product leaves 32 bits.
ScaledPost(pre, u, T8, m, c, d) ==
    LET Th == T8 \div 10000
        Tl == T8 % 10000
        B == c * u * Tl
        P == (pre % 10) * (d \div 10) + u * m + c * u * Th + (B \div 10000)
    IN  RoundFrac(pre \div 10, P, (B % 10000) # 0, d)

\* _seed_from(pid, week_id)
_seed_from(pid, week_id) == _sha_seed(pid, week_id, "week1", 0)

\* build_week1_payloads(pid, week_id, persona, diet, sim_text): the logs payload
build_week1_payloads(pid, week_id, persona, kcalv) ==
    LET rnd == _seed_from(pid, week_id)
        pre_w == _to_float(persona.Weight_kg, 70000)
        pre_mus == _to_float(persona.Muscle_mass_kg, Max((35 * pre_w) \div 100, 22000))
        pre_fat == _to_float(persona.Fat_percent, 20000)
        days == persona.Days_per_week
        sleep_h == persona.Sleep_hours
        kcal_target == _to_float(kcalv, 20000)
        \* mult in units of 1e-8; the noise uniform(0.97, 1.03) on a lattice of hundredths
        mult == _adherence_factor(persona.Adherence_propensity) * _days_bonus(days)
                  * _sleep_bonus(sleep_h) * Uniform(97, 103, Draw(rnd, 0))
        Mh == mult \div 10000
        Ml == mult % 10000
        daily_avg_kcal ==
            _clamp(RoundFrac(0, kcal_target * Mh + ((kcal_target * Ml) \div 10000),
                             ((kcal_target * Ml) % 10000) # 0, 10000),
                   12000, 45000)
        g == _goal_deltas(persona.Primary_goal)
        tighten == mult - 95000000
        uw == Uniform(g[1].lo, g[1].hi, Draw(rnd, 1))
        um == Uniform(g[2].lo, g[2].hi, Draw(rnd, 2))
        uf == Uniform(g[3].lo, g[3].hi, Draw(rnd, 3))
        cut == 10 * daily_avg_kcal < 9 * kcal_target /\ Contains(persona.Primary_goal, "gain")
        post_w == _clamp(ScaledPost(pre_w, uw, tighten, 50000, 3, 500000), 3000, 25000)
        post_mus == _clamp(IF cut THEN ScaledPost(pre_mus, um, tighten, 37500, 3, 625000)
                           ELSE ScaledPost(pre_mus, um, tighten, 12500, 1, 125000),
                           800, 12000)
        post_fat == _clamp(ScaledPost(pre_fat, uf, tighten, 100000, 7, 1000000), 300, 6500)
        sleep == _clamp(10 * sleep_h + Uniform(-30, 40, Draw(rnd, 4)), 400, 1000)
    IN  Log("week1", FALSE, persona, daily_avg_kcal,
            <<10 * RoundDiv(pre_w, 10), 10 * RoundDiv(pre_mus, 10), 10 * RoundDiv(pre_fat, 10)>>,
            <<10 * post_w, 10 * post_mus, 10 * post_fat>>,
            <<10 * RoundDiv(10 * post_w - pre_w, 10), 10 * RoundDiv(10 * post_mus - pre_mus, 10),
              10 * RoundDiv(10 * post_fat - pre_fat, 10)>>,
            sleep)

\* ---- year_orchestrator_dual_v2.py ----------------------------------------
\* _as_float(x, default) of simulate_progress
_as_float(x, default) == IF IsNumber(x) THEN x.v ELSE default

\* round(coef * adh_factor * sleep_factor * (0.6 + 0.8 * rnd.random()), 2) in hundredths
\* (coef, sleep_factor in hundredths, adh_factor in tenths, random() = j / RndGrid)
ProgressDelta(coef, adh_factor, sleep_factor, j) ==
    RoundDiv(coef * adh_factor * sleep_factor * (6 * RndGrid + 8 * j), 100000 * RndGrid)

\* simulate_progress(updated_persona, diet, week_id, workouts): the logs payload
simulate_progress(persona, kcalv, pid, week_id) ==
    LET pre_w == _as_float(persona.Weight_kg, 75000)
        pre_m == _as_float(persona.Muscle_mass_kg, 35000)
        pre_f == _as_float(persona.Fat_percent, 22000)
        goal == persona.Primary_goal
        adherence == persona.Adherence_propensity
        sleep_h == persona.Sleep_hours
        adj == IF Contains(goal, "fat") THEN -40 ELSE IF Contains(goal, "muscle") THEN 35 ELSE -5
        adh_factor == IF adherence = AdhLow THEN 7 ELSE IF adherence = AdhHigh THEN 11 ELSE 10
        sleep_factor == IF sleep_h < 60 THEN 90 ELSE IF sleep_h >= 80 THEN 105 ELSE 100
        rnd == _sha_seed(pid, week_id, "progress", 0)
        dw == ProgressDelta(adj, adh_factor, sleep_factor, Draw(rnd, 0))
        dm == ProgressDelta(IF Contains(goal, "muscle") THEN 15 ELSE -5,
                            adh_factor, sleep_factor, Draw(rnd, 1))
        df == ProgressDelta(IF Contains(goal, "fat") THEN -40
                            ELSE IF Contains(goal, "recomp") THEN -10 ELSE 0,
                            adh_factor, sleep_factor, Draw(rnd, 2))
        post_w == RoundDiv(pre_w + 10 * dw, 10)
        post_m == Max(0, RoundDiv(pre_m + 10 * dm, 10))
        post_f == Max(300, RoundDiv(pre_f + 10 * df, 10))
    IN  Log("progress", FALSE, persona, OrDefault(kcalv, 22000),
            <<pre_w, pre_m, pre_f>>,
            <<10 * post_w, 10 * post_m, 10 * post_f>>,
            <<10 * RoundDiv(10 * post_w - pre_w, 10), 10 * RoundDiv(10 * post_m - pre_m, 10),
              10 * RoundDiv(10 * post_f - pre_f, 10)>>,
            10 * sleep_h)

\* ---- replies of the narrative provider ------------------------------------
\* a reply: the provider's JSON object, or NoReply when the call or the parse fails
ReplyDeltas == {Num(250), Num(-3000), RNumStr(1350), RText, RAbsent}
ReplyPosts == {"sum", "off", "absent"}
Reply(dv, pk) ==
    LET pre == <<80000, 35000, 22000>>
    IN  [ok |-> TRUE,
         Pre |-> [i \in 1..3 |-> Num(pre[i])],
         Post |-> [i \in 1..3 |->
                     CASE pk = "sum" -> Num(pre[i] + (IF IsNumber(dv) THEN dv.v ELSE 0))
                       [] pk = "off" -> Num(pre[i] + 5000)
                       [] OTHER -> RAbsent],
         delta |-> [i \in 1..3 |-> dv],
         daily_avg_kcal |-> Num(21000),
         sleep_avg_hours |-> Num(700)]
NoReply == [ok |-> FALSE,
            Pre |-> [i \in 1..3 |-> RAbsent], Post |-> [i \in 1..3 |-> RAbsent],
            delta |-> [i \in 1..3 |-> RAbsent],
            daily_avg_kcal |-> RAbsent, sleep_avg_hours |-> RAbsent]
Replies == {Reply(dv, pk) : dv \in ReplyDeltas, pk \in ReplyPosts} \cup {NoReply}

\* every required key is present and float() accepts each numeric field
Complete(reply) ==
    /\ reply.ok
    /\ \A i \in 1..3 : IsNumber(reply.Pre[i]) /\ IsNumber(reply.Post[i]) /\ IsNumber(reply.delta[i])
    /\ IsNumber(reply.daily_avg_kcal) /\ IsNumber(reply.sleep_avg_hours)

\* simulate_week_with_claude(persona, diet, workouts_map, workouts_ids, pid, week_id, nonce)
simulate_week_with_claude(persona, kcalv, pid, week_id, nonce, reply) ==
    IF Complete(reply)
    THEN Log("claude_v12", TRUE, persona, reply.daily_avg_kcal.v,
             [i \in 1..3 |-> reply.Pre[i].v], [i \in 1..3 |-> reply.Post[i].v],
             [i \in 1..3 |-> reply.delta[i].v], reply.sleep_avg_hours.v)
    ELSE simulate_week_with_claude_fallback(persona, kcalv, pid, week_id, nonce)

\* clamp(x, lo, hi) of Experiment_Yearly_Loop_OpenAI_Claude_v3.py: lo when float(x) fails
clamp(x, lo, hi) == IF IsNumber(x) THEN Max(lo, Min(hi, x.v)) ELSE lo

\* _sg(d, k, default)
_sg(v, default) == IF IsNumber(v) THEN v.v ELSE default

\* the three delta bounds in thousandths
DeltaBound == <<1200, 400, 1200>>

\* claude_simulate_week(persona, diet, workouts): the reply is clamped
claude_simulate_week(persona, reply) ==
    LET pp == <<_sg(persona.Weight_kg, 0), _sg(persona.Muscle_mass_kg, 0),
                _sg(persona.Fat_percent, 0)>>
        pre == [i \in 1..3 |-> _sg(reply.Pre[i], pp[i])]
        post == [i \in 1..3 |-> _sg(reply.Post[i], pre[i])]
        given == [i \in 1..3 |->
                    IF reply.delta[i].k = "absent" THEN Num(post[i] - pre[i]) ELSE reply.delta[i]]
        delta == [i \in 1..3 |-> clamp(given[i], -DeltaBound[i], DeltaBound[i])]
    IN  Log("claude_exp1", Complete(reply), persona, _sg(reply.daily_avg_kcal, 0),
            pre, [i \in 1..3 |-> pre[i] + delta[i]], delta, _sg(reply.sleep_avg_hours, 0))

\* coerce_float(x) or fallback
CoerceOr(v, fallback) == IF IsNumber(v) /\ v.v # 0 THEN v.v ELSE fallback

\* clamp_and_fill(p, data) of Experiment_Week1_Claude_Logs_UpdatePersona_v4.py
clamp_and_fill(persona, data) ==
    LET pp == <<OrDefault(persona.Weight_kg, 0), OrDefault(persona.Muscle_mass_kg, 0),
                OrDefault(persona.Fat_percent, 0)>>
        pre == [i \in 1..3 |-> CoerceOr(data.Pre[i], pp[i])]
        adh == OrDefault(persona.Adherence_propensity, 60)
        guess == <<_clamp(pre[1] + 10 * (adh - 50), pre[1] - 800, pre[1] + 800),
                   _clamp(pre[2] + 2 * Max(0, adh - 40), pre[2] - 150, pre[2] + 250),
                   _clamp(pre[3] + 8 * (45 - adh), Max(0, pre[3] - 1200), pre[3] + 1200)>>
        post == [i \in 1..3 |-> IF IsNumber(data.Post[i]) THEN data.Post[i].v ELSE guess[i]]
        delta == [i \in 1..3 |->
                    IF IsNumber(data.delta[i]) THEN data.delta[i].v ELSE post[i] - pre[i]]
        r2(x) == 10 * RoundDiv(x, 10)
    IN  Log("claude_v4", Complete(data), persona, _sg(data.daily_avg_kcal, 0),
            [i \in 1..3 |-> r2(pre[i])], [i \in 1..3 |-> r2(post[i])],
            [i \in 1..3 |-> r2(delta[i])],
            CoerceOr(data.sleep_avg_hours, 10 * persona.Sleep_hours))

\* ---- inputs ---------------------------------------------------------------
\* pre-states: weight, muscle mass and fat percentage as the persona document holds them
SimBodies ==
    { <<Num(80000), Num(35000), Num(22000)>>,
      <<Num(62125), Num(24375), Num(31455)>>,
      <<Num(70005), RAbsent, Num(18250)>>,
      <<RAbsent, RAbsent, RAbsent>>,
      <<Num(45500), Num(18000), Num(4200)>>,
      <<Num(118000), Num(40000), Num(62500)>> }
SimGoals == {"fat loss", "muscle gain", "recomp", "maintenance"}
\* adherence, training days per week and sleep hours (tenths)
SimHabits ==
    { <<Num(90), 5, 80>>, <<Num(65), 3, 70>>, <<Num(30), 2, 55>>, <<RAbsent, 4, 65>>,
      <<AdhHigh, 5, 80>>, <<AdhMedium, 3, 70>>, <<AdhLow, 2, 55>>, <<AdhHigh, 4, 75>> }
SimPersonas ==
    { [Weight_kg |-> b[1], Muscle_mass_kg |-> b[2], Fat_percent |-> b[3],
       Primary_goal |-> g, Adherence_propensity |-> h[1],
       Days_per_week |-> h[2], Sleep_hours |-> h[3]] :
        b \in SimBodies, g \in SimGoals, h \in SimHabits }
\* the diet's Total_kcal_target_kcal as the simulators read it
SimKcal == {Num(28000), RAbsent}
\* float() raises on a word: the v12 client and the v4 script need a number or nothing
NumericAdherence(persona) == persona.Adherence_propensity.k # "text"

(***************************************************************************)
(* Simulators: state machine                                               *)
(***************************************************************************)
\* claude_client_v12: provider first, seeded fallback when the reply is not usable
SimulateWeekWithClaude ==
    /\ log = NoLog
    /\ \E persona \in SimPersonas, kcalv \in SimKcal, pid \in Pids, week \in Weeks,
          nonce \in 0..MaxNonce, reply \in Replies :
          /\ NumericAdherence(persona)
          /\ log' = simulate_week_with_claude(persona, kcalv, pid, week, nonce, reply)
    /\ UNCHANGED <<dietVars, split, mealVars, extVars>>

BuildWeek1 ==
    /\ log = NoLog
    /\ \E persona \in SimPersonas, kcalv \in SimKcal, pid \in Pids, week \in Weeks :
          log' = build_week1_payloads(pid, week, persona, kcalv)
    /\ UNCHANGED <<dietVars, split, mealVars, extVars>>

SimulateProgress ==
    /\ log = NoLog
    /\ \E persona \in SimPersonas, kcalv \in SimKcal, pid \in Pids, week \in Weeks :
          log' = simulate_progress(persona, kcalv, pid, week)
    /\ UNCHANGED <<dietVars, split, mealVars, extVars>>

ClaudeSimulateWeek ==
    /\ log = NoLog
    /\ \E persona \in SimPersonas, reply \in Replies :
          /\ reply.ok
          /\ log' = claude_simulate_week(persona, reply)
    /\ UNCHANGED <<dietVars, split, mealVars, extVars>>

ClampAndFill ==
    /\ log = NoLog
    /\ \E persona \in SimPersonas, reply \in Replies :
          /\ reply.ok
          /\ NumericAdherence(persona)
          /\ log' = clamp_and_fill(persona, reply)
    /\ UNCHANGED <<dietVars, split, mealVars, extVars>>

\* write_logs(db, pid, week_id, log): the orchestrator stores the log
WriteLogs ==
    /\ log # NoLog
    /\ log' = NoLog
    /\ UNCHANGED <<dietVars, split, mealVars, extVars>>

NextSim ==
    \/ SimulateWeekWithClaude \/ BuildWeek1 \/ SimulateProgress
    \/ ClaudeSimulateWeek \/ ClampAndFill \/ WriteLogs

SpecSim == Init /\ [][NextSim]_vars

(***************************************************************************)
(* Meal composer (acegpt_client.py)                                        *)
(*                                                                         *)
(* Amounts are whole grams or millilitres; macros are in tenths.           *)
(***************************************************************************)
\* NUTR: per 100 g / 100 ml, every value in tenths
NutrRows ==
    {
      [name |-> "tamees", kcal |-> 2750, carb |-> 520, prot |-> 90, fat |-> 30, fib |-> 30, na |-> 4500],
      [name |-> "whole-wheat tamees", kcal |-> 2600, carb |-> 490, prot |-> 100, fat |-> 30, fib |-> 60, na |-> 4400],
      [name |-> "samoon", kcal |-> 2800, carb |-> 540, prot |-> 90, fat |-> 30, fib |-> 25, na |-> 5000],
      [name |-> "markook", kcal |-> 2600, carb |-> 530, prot |-> 80, fat |-> 20, fib |-> 30, na |-> 4000],
      [name |-> "pita", kcal |-> 2600, carb |-> 550, prot |-> 90, fat |-> 15, fib |-> 25, na |-> 4000],
      [name |-> "kubz arabi", kcal |-> 2600, carb |-> 550, prot |-> 90, fat |-> 15, fib |-> 25, na |-> 4000],
      [name |-> "ful medames", kcal |-> 1100, carb |-> 190, prot |-> 76, fat |-> 6, fib |-> 80, na |-> 2500],
      [name |-> "labneh", kcal |-> 1300, carb |-> 50, prot |-> 100, fat |-> 70, fib |-> 0, na |-> 2000],
      [name |-> "hummus", kcal |-> 1770, carb |-> 143, prot |-> 79, fat |-> 86, fib |-> 60, na |-> 2400],
      [name |-> "feta", kcal |-> 2650, carb |-> 40, prot |-> 140, fat |-> 210, fib |-> 0, na |-> 11000],
      [name |-> "peanut butter", kcal |-> 5880, carb |-> 200, prot |-> 250, fat |-> 500, fib |-> 60, na |-> 4000],
      [name |-> "white cheese", kcal |-> 2800, carb |-> 30, prot |-> 200, fat |-> 220, fib |-> 0, na |-> 7000],
      [name |-> "scrambled eggs", kcal |-> 1550, carb |-> 11, prot |-> 130, fat |-> 110, fib |-> 0, na |-> 1250],
      [name |-> "boiled eggs", kcal |-> 1550, carb |-> 11, prot |-> 130, fat |-> 110, fib |-> 0, na |-> 1250],
      [name |-> "omelette", kcal |-> 1800, carb |-> 20, prot |-> 120, fat |-> 140, fib |-> 0, na |-> 1350],
      [name |-> "chicken breast", kcal |-> 1650, carb |-> 0, prot |-> 310, fat |-> 36, fib |-> 0, na |-> 740],
      [name |-> "lamb", kcal |-> 2940, carb |-> 0, prot |-> 250, fat |-> 210, fib |-> 0, na |-> 700],
      [name |-> "beef", kcal |-> 2500, carb |-> 0, prot |-> 260, fat |-> 150, fib |-> 0, na |-> 720],
      [name |-> "shrimp", kcal |-> 990, carb |-> 2, prot |-> 240, fat |-> 3, fib |-> 0, na |-> 1500],
      [name |-> "white fish", kcal |-> 1200, carb |-> 0, prot |-> 260, fat |-> 15, fib |-> 0, na |-> 900],
      [name |-> "tuna", kcal |-> 1320, carb |-> 0, prot |-> 290, fat |-> 10, fib |-> 0, na |-> 3200],
      [name |-> "kabsa", kcal |-> 1700, carb |-> 300, prot |-> 40, fat |-> 30, fib |-> 10, na |-> 3000],
      [name |-> "mandi", kcal |-> 1600, carb |-> 290, prot |-> 40, fat |-> 25, fib |-> 10, na |-> 2600],
      [name |-> "saleeq", kcal |-> 1400, carb |-> 240, prot |-> 40, fat |-> 25, fib |-> 5, na |-> 2500],
      [name |-> "sayadiyah", kcal |-> 1650, carb |-> 280, prot |-> 60, fat |-> 30, fib |-> 10, na |-> 3500],
      [name |-> "simple salad", kcal |-> 350, carb |-> 70, prot |-> 15, fat |-> 2, fib |-> 25, na |-> 500],
      [name |-> "cucumber sticks", kcal |-> 160, carb |-> 36, prot |-> 7, fat |-> 1, fib |-> 5, na |-> 20],
      [name |-> "carrot sticks", kcal |-> 410, carb |-> 100, prot |-> 9, fat |-> 2, fib |-> 28, na |-> 690],
      [name |-> "roasted zucchini", kcal |-> 300, carb |-> 60, prot |-> 12, fat |-> 4, fib |-> 20, na |-> 50],
      [name |-> "okra stew", kcal |-> 700, carb |-> 90, prot |-> 20, fat |-> 30, fib |-> 30, na |-> 3000],
      [name |-> "grilled peppers", kcal |-> 310, carb |-> 60, prot |-> 10, fat |-> 3, fib |-> 20, na |-> 40],
      [name |-> "laban", kcal |-> 400, carb |-> 30, prot |-> 30, fat |-> 20, fib |-> 0, na |-> 450],
      [name |-> "mint tea", kcal |-> 10, carb |-> 2, prot |-> 0, fat |-> 0, fib |-> 0, na |-> 20],
      [name |-> "Arabic coffee", kcal |-> 20, carb |-> 3, prot |-> 1, fat |-> 0, fib |-> 0, na |-> 50],
      [name |-> "black tea", kcal |-> 10, carb |-> 1, prot |-> 0, fat |-> 0, fib |-> 0, na |-> 30],
      [name |-> "water", kcal |-> 0, carb |-> 0, prot |-> 0, fat |-> 0, fib |-> 0, na |-> 0],
      [name |-> "dates", kcal |-> 2820, carb |-> 750, prot |-> 25, fat |-> 4, fib |-> 80, na |-> 20],
      [name |-> "banana", kcal |-> 890, carb |-> 230, prot |-> 11, fat |-> 3, fib |-> 26, na |-> 10],
      [name |-> "orange", kcal |-> 470, carb |-> 120, prot |-> 9, fat |-> 1, fib |-> 24, na |-> 10],
      [name |-> "apple", kcal |-> 520, carb |-> 140, prot |-> 3, fat |-> 2, fib |-> 24, na |-> 10],
      [name |-> "berries", kcal |-> 570, carb |-> 140, prot |-> 10, fat |-> 3, fib |-> 50, na |-> 10],
      [name |-> "grapes", kcal |-> 690, carb |-> 180, prot |-> 7, fat |-> 2, fib |-> 10, na |-> 20],
      [name |-> "tahini lemon dip", kcal |-> 5950, carb |-> 210, prot |-> 170, fat |-> 530, fib |-> 90, na |-> 100],
      [name |-> "yogurt", kcal |-> 590, carb |-> 36, prot |-> 100, fat |-> 4, fib |-> 0, na |-> 360],
      [name |-> "garlic sauce", kcal |-> 5000, carb |-> 100, prot |-> 40, fat |-> 480, fib |-> 10, na |-> 6000],
      [name |-> "tomato salsa", kcal |-> 290, carb |-> 70, prot |-> 15, fat |-> 2, fib |-> 15, na |-> 3000],
      [name |-> "pickles", kcal |-> 120, carb |-> 25, prot |-> 3, fat |-> 2, fib |-> 12, na |-> 7850] }
NUTR(name) == CHOOSE r \in NutrRows : r.name = name

BREADS == <<"tamees", "whole-wheat tamees", "samoon", "markook", "pita", "kubz arabi">>
SPREADS == <<"ful medames", "labneh", "hummus", "feta", "peanut butter", "white cheese">>
EGGS == <<"scrambled eggs", "boiled eggs", "omelette">>
PROTEINS == <<"chicken breast", "lamb", "beef", "shrimp", "white fish", "tuna">>
RICE_DISH == <<"kabsa", "mandi", "saleeq", "sayadiyah">>
SIDES == <<"simple salad", "cucumber sticks", "carrot sticks", "roasted zucchini", "okra stew",
           "grilled peppers">>
DRINKS == <<"laban", "mint tea", "Arabic coffee", "black tea", "water">>
FRUITS == <<"dates", "banana", "orange", "apple", "berries", "grapes">>
SAUCES == <<"tahini lemon dip", "yogurt", "garlic sauce", "tomato salsa", "pickles">>

InSeq(x, arr) == \E i \in 1..Len(arr) : arr[i] = x

\* _rng_for(persona_id, slot_idx, attempt)
_rng_for(persona_id, slot_idx, attempt) == _sha_seed(persona_id, slot_idx, "meal", attempt)

\* _pick(rng, arr): arr[rng.randrange(len(arr))], the k-th draw of the stream
_pick(rng, k, arr) == arr[((Draw(rng, k) * Len(arr)) \div RndGrid) + 1]

\* rng.randint(a, b), the k-th draw of the stream
randint(rng, k, a, b) == Uniform(a, b, Draw(rng, k))

\* _clamp_int(x, lo, hi) of a whole number x
_clamp_int(x, lo, hi) == Max(lo, Min(hi, x))

Item(name, amt, unit) == [name |-> name, amt |-> amt, unit |-> unit]

\* _compose_breakfast(rng): the items (the text names exactly these, in this order)
_compose_breakfast(rng) ==
    LET bread == _pick(rng, 0, BREADS)
        g_bread == _clamp_int(randint(rng, 1, 90, 140), 60, 180)
        spread_or_eggs == _pick(rng, 2, SPREADS \o EGGS)
        g_spread == IF InSeq(spread_or_eggs, SPREADS)
                    THEN _clamp_int(randint(rng, 3, 70, 120), 40, 150)
                    ELSE _clamp_int(randint(rng, 3, 90, 120), 80, 140)
        fruit == _pick(rng, 4, FRUITS)
        g_fruit == _clamp_int(randint(rng, 5, 80, 120), 60, 180)
        drink == _pick(rng, 6, DRINKS)
        ml_drink == _clamp_int(randint(rng, 7, 150, 250), 100, 300)
    IN  <<Item(bread, g_bread, "g"), Item(spread_or_eggs, g_spread, "g"),
          Item(fruit, g_fruit, "g"), Item(drink, ml_drink, "ml")>>

\* _compose_lunch(rng)
_compose_lunch(rng) ==
    <<Item(_pick(rng, 0, RICE_DISH), _clamp_int(randint(rng, 1, 260, 380), 200, 450), "g"),
      Item(_pick(rng, 2, PROTEINS), _clamp_int(randint(rng, 3, 150, 200), 120, 240), "g"),
      Item(_pick(rng, 4, SIDES), _clamp_int(randint(rng, 5, 100, 160), 80, 200), "g"),
      Item(_pick(rng, 6, DRINKS), _clamp_int(randint(rng, 7, 160, 240), 120, 300), "ml")>>

\* _compose_snack(rng)
_compose_snack(rng) ==
    <<Item(_pick(rng, 0, SPREADS), _clamp_int(randint(rng, 1, 90, 140), 60, 160), "g"),
      Item(_pick(rng, 2, BREADS), _clamp_int(randint(rng, 3, 70, 110), 50, 140), "g"),
      Item(_pick(rng, 4, FRUITS), _clamp_int(randint(rng, 5, 70, 110), 50, 150), "g")>>

\* _compose_dinner(rng): rice-dish dinner when rng.random() < 0.5, else a protein plate
_compose_dinner(rng) ==
    IF 2 * Draw(rng, 0) < RndGrid
    THEN <<Item(_pick(rng, 1, RICE_DISH), _clamp_int(randint(rng, 2, 220, 340), 180, 400), "g"),
           Item(_pick(rng, 3, PROTEINS), _clamp_int(randint(rng, 4, 150, 200), 120, 240), "g"),
           Item(_pick(rng, 5, SIDES), _clamp_int(randint(rng, 6, 100, 160), 80, 200), "g"),
           Item(_pick(rng, 7, SAUCES), _clamp_int(randint(rng, 8, 20, 35), 15, 40), "g")>>
    ELSE LET bread_or_rice == _pick(rng, 7, BREADS \o RICE_DISH)
             g_br == IF InSeq(bread_or_rice, BREADS)
                     THEN _clamp_int(randint(rng, 8, 80, 130), 60, 180)
                     ELSE _clamp_int(randint(rng, 8, 200, 320), 160, 400)
         IN  <<Item(_pick(rng, 1, PROTEINS), _clamp_int(randint(rng, 2, 170, 220), 140, 260), "g"),
               Item(_pick(rng, 3, SIDES), _clamp_int(randint(rng, 4, 120, 180), 90, 220), "g"),
               Item(_pick(rng, 5, SAUCES), _clamp_int(randint(rng, 6, 20, 35), 15, 40), "g"),
               Item(bread_or_rice, g_br, "g")>>

\* the slot dispatch of _compose_meal
ComposeSlot(slot_idx, rng) ==
    IF slot_idx = 1 THEN _compose_breakfast(rng)
    ELSE IF slot_idx = 2 THEN _compose_lunch(rng)
    ELSE IF slot_idx = 3 THEN _compose_snack(rng)
    ELSE _compose_dinner(rng)

\* sum over the items of per-100 value (tenths) times amount: hundred times the total
RECURSIVE RawSum(_, _)
RawSum(items, key) ==
    IF items = <<>> THEN 0
    ELSE NUTR(Head(items).name)[key] * Head(items).amt + RawSum(Tail(items), key)

\* round(total[k], 1) of the summed macro
Rounded1(items, key) == RoundDiv(RawSum(items, key), 100)

\* the summed macros with kcal left as the table's own kcal sum
_sum_macros_TableKcal(items) ==
    [kcal |-> Rounded1(items, "kcal"), carb |-> Rounded1(items, "carb"),
     fat |-> Rounded1(items, "fat"), prot |-> Rounded1(items, "prot"),
     fib |-> Rounded1(items, "fib"), na |-> Rounded1(items, "na")]

\* _sum_macros(items): kcal is overridden by round(4*carb + 4*prot + 9*fat, 1), which is
\* exact because the three rounded macros are tenths
_sum_macros(items) ==
    LET total == [k \in {"carb", "fat", "prot", "fib", "na"} |-> Rounded1(items, k)]
    IN  [kcal |-> 4 * total["carb"] + 4 * total["prot"] + 9 * total["fat"],
         carb |-> total["carb"], fat |-> total["fat"], prot |-> total["prot"],
         fib |-> total["fib"], na |-> total["na"]]

\* a meal text: the window of the slot and the items it names; tagged with " [u:..]"
Text(slot_idx, items, tagged) == [slot |-> slot_idx, items |-> items, tagged |-> tagged]

\* _ensure_unique(text) against the set u: the text returned and the set afterwards
_ensure_unique(text, u) ==
    IF text \notin u THEN [text |-> text, used |-> u \cup {text}]
    ELSE LET uniq == [text EXCEPT !.tagged = TRUE]
         IN  [text |-> uniq, used |-> u \cup {uniq}]

MaxAttempts == 12
FallbackAttempt == 999
KcalBandLo == 2500
KcalBandHi == 12000

\* _compose_meal(slot_idx, persona_id) from the given attempt on, u = USED_MEAL_TEXTS
RECURSIVE ComposeFrom(_, _, _, _)
ComposeFrom(slot_idx, persona_id, attempt, u) ==
    LET final == attempt >= MaxAttempts
        a == IF final THEN FallbackAttempt ELSE attempt
        items == ComposeSlot(slot_idx, _rng_for(persona_id, slot_idx, a))
        eu == _ensure_unique(Text(slot_idx, items, FALSE), u)
        macros == _sum_macros(items)
    IN  IF final \/ (KcalBandLo <= macros.kcal /\ macros.kcal <= KcalBandHi)
        THEN [slot |-> slot_idx, pid |-> persona_id, attempt |-> a, items |-> items,
              text |-> eu.text, macros |-> macros, used |-> eu.used]
        ELSE ComposeFrom(slot_idx, persona_id, attempt + 1, eu.used)

_compose_meal(slot_idx, persona_id, u) == ComposeFrom(slot_idx, persona_id, 0, u)

(***************************************************************************)
(* Meal composer: state machine                                            *)
(***************************************************************************)
\* call_acegpt: one `text, m = _compose_meal(idx, persona_id)`
ComposeMeal ==
    /\ Cardinality(used) < MaxUsed
    /\ \E slot_idx \in Slots, persona_id \in Pids :
          LET res == _compose_meal(slot_idx, persona_id, used)
          IN  /\ meal' = [slot |-> res.slot, pid |-> res.pid, attempt |-> res.attempt,
                          items |-> res.items, text |-> res.text, macros |-> res.macros]
              /\ used' = res.used
    /\ UNCHANGED <<dietVars, split, log, extVars>>

\* the process ends: the module-level USED_MEAL_TEXTS is gone with it
EndProcess ==
    /\ used # {}
    /\ used' = {}
    /\ meal' = NoMeal
    /\ UNCHANGED <<dietVars, split, log, extVars>>

NextMeal == ComposeMeal \/ EndProcess

SpecMeal == Init /\ [][NextMeal]_vars

(***************************************************************************)
(* Properties of the diet engine                                           *)
(***************************************************************************)
\* diversify_meals has executed `return obj`
Returned == dpc = "done"
\* ensure_diet_shape has returned
Shaped == dpc = "shaped"

SplitSum == split.parts[1] + split.parts[2] + split.parts[3] + split.parts[4]

\* C1: in every diet diversify_meals returns, each of the six totals differs from
\* the sum of its four per-meal values by at most 0.1; the per-meal values are
\* the parts _split returns for that total, whatever the four draws are.
C1_MacroSumWithinTenth ==
    /\ Returned => \A mk \in MKeySet : Abs(obj.total[mk].v - MealSum(obj, mk)) <= 1
    /\ Abs(split.total - SplitSum) <= 1

\* C2: in every diet ensure_diet_shape returns, each of the six totals equals the
\* sum of the corresponding four per-meal values, for any input mapping.
C2_TotalsEqualMealSums ==
    Shaped => \A mk \in MKeySet : obj.total[mk].v = MealSum(obj, mk)

\* the 34 schema fields of a diet
SchemaFields(o) == [total |-> o.total, names |-> o.names, meal |-> o.meal]

\* C6: every candidate and every returned diet carries, in all 34 schema fields,
\* exactly the values one pass derives from (pid, week_id, "diet", nonce) and the
\* persona: nothing of the input diet, of earlier passes or of the store leaks in,
\* so equal arguments give equal diets.
C6_Deterministic ==
    dpc \in {"cand", "done"} =>
        SchemaFields(obj) =
            SchemaFields(DiversifyPass(BlankObj, dargs.pid, dargs.week_id,
                                       dargs.persona, dargs.nonce))

\* a provider diet with values of its own went through at least one recursion
C6_Witness ==
    /\ Returned
    /\ depth > 0
    /\ dargs.raw # _fallback
    /\ \E mk \in MKeySet : obj.meal[mk][1] # ensure_diet_shape(dargs.raw).meal[mk][1]

\* C7: a returned diet never has four meals equal in all six macros under one
\* name, and its four meal names are non-empty and pairwise distinct.
C7_NonDegenerate ==
    Returned =>
        /\ ~_all_meals_identical(obj)
        /\ \A i \in Slots : obj.names[i].k = "str" /\ obj.names[i].s # ""
        /\ \A i, j \in Slots : i # j => obj.names[i].s # obj.names[j].s

\* the input consisted of four identical meals under one name
C7_Witness ==
    /\ Returned
    /\ _all_meals_identical(ensure_diet_shape(dargs.raw))

\* C8: every call of diversify_meals returns: the recursion stops at a bound by
\* returning the last candidate, it never runs into the interpreter's limit.
C8_RecursionBounded == dpc # "RecursionError"

\* C9 as stated: the returned Total_kcal_target_kcal lies within [1600, 3600].
C9_KcalWithinClamp ==
    Returned => /\ obj.total["kcal_target_kcal"].v >= 16000
                /\ obj.total["kcal_target_kcal"].v <= 36000

\* C9 (amended): the returned Total_kcal_target_kcal lies within [1504, 3816],
\* the clamp range [1600, 3600] widened by the 6% jitter applied after the clamp.
C9_KcalWithinJitteredClamp ==
    Returned => /\ obj.total["kcal_target_kcal"].v >= 15040
                /\ obj.total["kcal_target_kcal"].v <= 38160

\* a returned diet whose kcal total left the clamp range through the jitter
C9_Witness ==
    /\ Returned
    /\ \/ obj.total["kcal_target_kcal"].v > 36000
       \/ obj.total["kcal_target_kcal"].v < 16000

(***************************************************************************)
(* Properties of the weekly outcome simulators                             *)
(***************************************************************************)
Deterministic == log.src \in {"fallback", "week1", "progress"}
FromProvider == log.src \in {"claude_v12", "claude_exp1", "claude_v4"} /\ log.accepted

DeltasWithinBounds ==
    /\ Abs(log.delta_weight_kg) <= DeltaBound[1]
    /\ Abs(log.delta_muscle_kg) <= DeltaBound[2]
    /\ Abs(log.delta_fat_pct) <= DeltaBound[3]

\* C3: in every log of the three deterministic simulators each delta equals
\* round(Post - Pre, 2) of the Pre and Post values reported in that log.
C3_DeltaIsPostMinusPre ==
    Deterministic =>
        /\ log.delta_weight_kg = 10 * RoundDiv(log.Post_weight_kg - log.Pre_weight_kg, 10)
        /\ log.delta_muscle_kg = 10 * RoundDiv(log.Post_muscle_kg - log.Pre_muscle_kg, 10)
        /\ log.delta_fat_pct = 10 * RoundDiv(log.Post_fat_pct - log.Pre_fat_pct, 10)

\* C4: in every log of the three deterministic simulators |delta_weight_kg| <= 1.2,
\* |delta_muscle_kg| <= 0.4 and |delta_fat_pct| <= 1.2.
C4_DeltasBounded == Deterministic => DeltasWithinBounds

\* C5: a log built from an accepted provider reply has its three deltas within
\* the bounds and each Post value equal to Pre plus the delta.
C5_ProviderReplyClamped ==
    FromProvider =>
        /\ DeltasWithinBounds
        /\ log.Post_weight_kg = log.Pre_weight_kg + log.delta_weight_kg
        /\ log.Post_muscle_kg = log.Pre_muscle_kg + log.delta_muscle_kg
        /\ log.Post_fat_pct = log.Pre_fat_pct + log.delta_fat_pct

(***************************************************************************)
(* Properties of the meal composer                                         *)
(***************************************************************************)
Composed == meal.slot # 0
Reconciled(m) == m.kcal = 4 * m.carb + 4 * m.prot + 9 * m.fat

\* C10: the kcal of every returned meal equals 4*carb + 4*prot + 9*fat of its reported
\* one-decimal macros, and so does the kcal of the composition of every attempt
\* 0..11 and of the fallback attempt for the same slot and persona.
C10_KcalFromMacros ==
    Composed =>
        /\ Reconciled(meal.macros)
        /\ \A a \in (0..(MaxAttempts - 1)) \cup {FallbackAttempt} :
              Reconciled(_sum_macros(ComposeSlot(meal.slot, _rng_for(meal.pid, meal.slot, a))))

\* a returned meal whose reported kcal is not what the table's kcal column sums to
C10_Witness ==
    /\ Composed
    /\ meal.macros.kcal # Rounded1(meal.items, "kcal")

(***************************************************************************)
(* Schema normaliser of acegpt_client.py and idempotence of both           *)
(* normalisers                                                             *)
(*                                                                         *)
(* A parsed mapping is the sequence of its items (key, value) in insertion *)
(* order, with distinct keys.  A key is a schema field together with the   *)
(* way it is spelled: "canon" exactly as in REQUIRED_FIELDS, "lower" a     *)
(* spelling that k.lower().strip(" ,:") maps onto the field, "other" a key *)
(* of no field.  Numbers are in tenths.                                    *)
(***************************************************************************)
PNum(x) == [k |-> "num", v |-> x, s |-> ""]          \* int or float
PBool(b) == [k |-> "bool", v |-> b, s |-> ""]        \* True (1) or False (0)
PNumStr(s, x) == [k |-> "numstr", v |-> x, s |-> s]  \* a string float(s.strip()) accepts
PStr(s) == [k |-> "str", v |-> 0, s |-> s]           \* any other string
PNone == [k |-> "none", v |-> 0, s |-> ""]           \* None, also what .get gives if absent
PObj == [k |-> "obj", v |-> 0, s |-> "{'kcal': 300}"]  \* a nested object

Field(t, i, mk) == [t |-> t, i |-> i, mk |-> mk]
MEAL_KEYS ==
    [i \in Slots |-> <<Field("name", i, "")>> \o [j \in 1..6 |-> Field("meal", i, MKeys[j])]]
TotalFields == [j \in 1..6 |-> Field("total", 0, MKeys[j])]
REQUIRED_FIELDS ==
    <<Field("Note", 0, "")>> \o TotalFields
        \o MEAL_KEYS[1] \o MEAL_KEYS[2] \o MEAL_KEYS[3] \o MEAL_KEYS[4]

Key(f, form) == [f |-> f, form |-> form]
\* canon.get(lk, k)
CanonKey(key) == IF key.form = "lower" THEN Key(key.f, "canon") ELSE key

\* dict operations on the item sequence
Has(d, key) == \E i \in 1..Len(d) : d[i].key = key
Get(d, key) == IF Has(d, key) THEN d[CHOOSE i \in 1..Len(d) : d[i].key = key].val ELSE PNone
Put(d, key, val) ==
    IF Has(d, key)
    THEN [i \in 1..Len(d) |-> IF d[i].key = key THEN [key |-> key, val |-> val] ELSE d[i]]
    ELSE Append(d, [key |-> key, val |-> val])
\* d1 == d2 of two dicts: the same keys with equal values, in any order
DictEq(d1, d2) == {d1[i] : i \in 1..Len(d1)} = {d2[i] : i \in 1..Len(d2)}

\* strings are parsed but a value that is a number already is dropped
to_number_StringsOnly(val) ==
    IF val.k = "numstr" THEN PNum(val.v) ELSE PNum(0)

\* to_number(v)
to_number(val) ==
    IF val.k \in {"num", "bool"} THEN PNum(val.v)
    ELSE IF val.k = "numstr" THEN PNum(val.v)
    ELSE PNum(0)

\* str(val) of a value that is neither a string nor None
StrOf(val) ==
    CASE val.k = "num" -> PNumStr(ToString(val.v), val.v)
      [] val.k = "bool" -> PStr(IF val.v = 1 THEN "True" ELSE "False")
      [] OTHER -> PStr(val.s)

\* the value normalize_to_schema stores for one schema field, given norm.get(field)
Coerced(f, val) ==
    CASE f.t = "Note" -> IF val.k \in {"str", "numstr"} THEN val ELSE PStr("")
      [] f.t = "name" -> IF val.k \in {"str", "numstr"} THEN val
                         ELSE IF val.k = "none" THEN PStr("") ELSE StrOf(val)
      [] OTHER -> to_number(val)

\* norm[canon.get(lk, k)] = v for every item of parsed, in order: a key stands
\* where it was first inserted and holds the value assigned to it last
Rekey(items) ==
    LET n == Len(items)
        ck(i) == CanonKey(items[i].key)
        first == SelectSeq([i \in 1..n |-> i], LAMBDA i : \A j \in 1..(i - 1) : ck(j) # ck(i))
        last(i) == CHOOSE j \in 1..n : ck(j) = ck(i) /\ \A l \in (j + 1)..n : ck(l) # ck(i)
    IN  [p \in 1..Len(first) |-> [key |-> ck(first[p]), val |-> items[last(first[p])].val]]

\* the coercion loops over Note, MEAL_KEYS and the totals: every field present is
\* coerced where it stands, every field absent is inserted in the loops' order
CoerceAll(norm0, fields) ==
    LET coerced == [i \in 1..Len(norm0) |->
                      IF norm0[i].key.form = "canon"
                      THEN [key |-> norm0[i].key,
                            val |-> Coerced(norm0[i].key.f, norm0[i].val)]
                      ELSE norm0[i]]
        absent == SelectSeq(fields, LAMBDA f : ~Has(norm0, Key(f, "canon")))
    IN  coerced \o [j \in 1..Len(absent) |->
                      [key |-> Key(absent[j], "canon"), val |-> Coerced(absent[j], PNone)]]

\* for k in REQUIRED_FIELDS: if k not in norm: norm[k] = "" or 0.0
FillMissing(norm0, fields) ==
    LET absent == SelectSeq(fields, LAMBDA f : ~Has(norm0, Key(f, "canon")))
    IN  norm0 \o [j \in 1..Len(absent) |->
                    [key |-> Key(absent[j], "canon"),
                     val |-> IF absent[j].t = "name" THEN PStr("") ELSE PNum(0)]]

\* normalize_to_schema(parsed)
normalize_to_schema(parsed) ==
    LET rekeyed == Rekey(parsed)
        order == <<Field("Note", 0, "")>>
                   \o MEAL_KEYS[1] \o MEAL_KEYS[2] \o MEAL_KEYS[3] \o MEAL_KEYS[4] \o TotalFields
    IN  FillMissing(CoerceAll(rekeyed, order), REQUIRED_FIELDS)

\* keys and values a provider's parsed reply may carry
ParsedKeys ==
    { Key(f, form) : f \in {Field("Note", 0, ""), Field("name", 1, ""),
                            Field("meal", 1, "carbs_g"), Field("total", 0, "kcal_target_kcal")},
                     form \in {"canon", "lower"} }
      \cup {Key(Field("comment", 0, ""), "other")}
ParsedVals ==
    {PNum(125), PNum(0), PNumStr(" 12.5 ", 125), PStr("rice"), PStr(""), PNone, PBool(1), PObj}
ParsedItems == {[key |-> k, val |-> v] : k \in ParsedKeys, v \in ParsedVals}
\* mappings of up to two items
ParsedDicts ==
    {<<>>} \cup {<<a>> : a \in ParsedItems}
           \cup {x \in ParsedItems \X ParsedItems : x[1].key # x[2].key}

\* one normaliser applied to a mapping, then to its own result
NormVal(o, d) == [o |-> o, d |-> d]
ApplyNorm(fn, x) ==
    IF fn = "ensure_diet_shape" THEN NormVal(ensure_diet_shape(x.o), x.d)
    ELSE NormVal(x.o, normalize_to_schema(x.d))

\* ensure_diet_shape(raw)
ShapeOnce ==
    /\ norm.fn = "none"
    /\ \E raw \in RawDiets :
          norm' = [fn |-> "ensure_diet_shape", n |-> 1, in |-> NormVal(raw, <<>>),
                   once |-> NormVal(raw, <<>>),
                   out |-> ApplyNorm("ensure_diet_shape", NormVal(raw, <<>>))]
    /\ UNCHANGED <<coreVars, wk, yr, db, par, ace, loose, gain, cm, uq>>

\* normalize_to_schema(parsed)
SchemaOnce ==
    /\ norm.fn = "none"
    /\ \E parsed \in ParsedDicts :
          norm' = [fn |-> "normalize_to_schema", n |-> 1, in |-> NormVal(BlankObj, parsed),
                   once |-> NormVal(BlankObj, parsed),
                   out |-> ApplyNorm("normalize_to_schema", NormVal(BlankObj, parsed))]
    /\ UNCHANGED <<coreVars, wk, yr, db, par, ace, loose, gain, cm, uq>>

\* the same normaliser on the result it returned
ApplyAgain ==
    /\ norm.n = 1
    /\ norm' = [norm EXCEPT !.n = 2, !.once = norm.out, !.out = ApplyNorm(norm.fn, norm.out)]
    /\ UNCHANGED <<coreVars, wk, yr, db, par, ace, loose, gain, cm, uq>>

\* the caller takes the result
TakeNorm ==
    /\ norm.n = 2
    /\ norm' = NoNorm
    /\ UNCHANGED <<coreVars, wk, yr, db, par, ace, loose, gain, cm, uq>>

NextIdem == ShapeOnce \/ SchemaOnce \/ ApplyAgain \/ TakeNorm

SpecIdem == Init /\ [][NextIdem]_vars

(***************************************************************************)
(* Idempotence of the normalisers                                          *)
(***************************************************************************)
NormalizedTwice == norm.n = 2

\* C11: a normaliser applied to its own output returns an equal object:
\* ensure_diet_shape(ensure_diet_shape(x)) = ensure_diet_shape(x) and
\* normalize_to_schema(normalize_to_schema(x)) = normalize_to_schema(x), for
\* mappings with missing keys, differently-cased keys, None, empty-string or
\* non-numeric values and nested objects.
C11_Idempotent ==
    NormalizedTwice => /\ norm.out.o = norm.once.o
                       /\ DictEq(norm.out.d, norm.once.d)

\* a mapping with a differently-cased key and a nested object, which the first
\* application changed, has been normalised twice
C11_Witness ==
    /\ NormalizedTwice
    /\ norm.fn = "normalize_to_schema"
    /\ \E i \in 1..Len(norm.in.d) : norm.in.d[i].key.form = "lower"
    /\ \E i \in 1..Len(norm.in.d) : norm.in.d[i].val = PObj
    /\ ~DictEq(norm.in.d, norm.once.d)

(***************************************************************************)
(* Week labels (utils_time_dual.py, year_orchestrator_v12.py, exp1)        *)
(*                                                                         *)
(* A date is its proleptic Gregorian ordinal (day 1 is 0001-01-01), a week *)
(* label is the year and week it spells and whether the week is written    *)
(* with two digits.                                                        *)
(***************************************************************************)
MaxWeeks == 3              \* largest number of weeks a run is asked for

IsLeap(y) == y % 4 = 0 /\ (y % 100 # 0 \/ y % 400 = 0)
\* ordinal of 1 January of year y
Jan1(y) == 365 * (y - 1) + (y - 1) \div 4 - (y - 1) \div 100 + (y - 1) \div 400 + 1
\* date.weekday(): Monday is 0
Weekday(ord) == (ord + 6) % 7
\* the calendar year of a date
YearOf(ord) == CHOOSE y \in 2010..2040 : Jan1(y) <= ord /\ ord < Jan1(y + 1)

\* Monday of ISO week 1 of a year, as the datetime module finds it
_isoweek1monday(year) ==
    LET firstday == Jan1(year)
        firstweekday == Weekday(firstday)
        week1monday == firstday - firstweekday
    IN  IF firstweekday > 3 THEN week1monday + 7 ELSE week1monday

\* date.fromisocalendar(year, week, 1)
fromisocalendar(year, week) == _isoweek1monday(year) + 7 * (week - 1)

\* d.isocalendar(): (ISO year, ISO week)
isocalendar(ord) ==
    LET year == YearOf(ord)
        week == (ord - _isoweek1monday(year)) \div 7
    IN  IF ord < _isoweek1monday(year)
        THEN [year |-> year - 1, week |-> (ord - _isoweek1monday(year - 1)) \div 7 + 1]
        ELSE IF week >= 52 /\ ord >= _isoweek1monday(year + 1)
             THEN [year |-> year + 1, week |-> 1]
             ELSE [year |-> year, week |-> week + 1]

Label(year, week, pad) == [year |-> year, week |-> week, pad |-> pad]

\* week_monday(week_id) after parse_week_id: int() reads "05" and "5" alike
week_monday(week_id) == fromisocalendar(week_id.year, week_id.week)

\* next_week_id(week_id): f"Week_{iso.year}_{iso.week}"
next_week_id(week_id) ==
    LET iso == isocalendar(week_monday(week_id) + 7)
    IN  Label(iso.year, iso.week, FALSE)

\* the for loop of week_id_sequence: k more labels after cur
RECURSIVE NextWeeks(_, _)
NextWeeks(cur, k) ==
    IF k <= 0 THEN <<>>
    ELSE <<next_week_id(cur)>> \o NextWeeks(next_week_id(cur), k - 1)

\* week_id_sequence(start_week_id, total_weeks, include_start)
week_id_sequence(start_week_id, total_weeks, include_start) ==
    IF total_weeks <= 0 THEN <<>>
    ELSE (IF include_start THEN <<start_week_id>> ELSE <<>>)
            \o NextWeeks(start_week_id, total_weeks - (IF include_start THEN 1 ELSE 0))

\* _week_to_monday(week_id)
_week_to_monday(week_id) == fromisocalendar(week_id.year, week_id.week)

\* the calendar year of the date in place of its ISO year
_week_from_date_CalendarYear(d) == Label(YearOf(d), isocalendar(d).week, TRUE)

\* _week_from_date(d): f"Week_{iso.year}_{iso.week:02d}"
_week_from_date(d) == Label(isocalendar(d).year, isocalendar(d).week, TRUE)

\* week_sequence(start_week_id, n, include_start)
week_sequence(start_week_id, n, include_start) ==
    LET start_date == _week_to_monday(start_week_id)
        idx0 == IF include_start THEN 0 ELSE 1
    IN  [j \in 1..Max(n, 0) |-> _week_from_date(start_date + 7 * (idx0 + j - 1))]

\* iso_week_to_monday_date(iso_week)
iso_week_to_monday_date(iso_week) ==
    LET jan4 == Jan1(iso_week.year) + 3
        week1_monday == jan4 - ((Weekday(jan4) + 1) - 1)
    IN  week1_monday + 7 * (iso_week.week - 1)

\* add_weeks(iso_week, n): f"{year}-W{week:02d}"
add_weeks(iso_week, n) ==
    LET iso == isocalendar(iso_week_to_monday_date(iso_week) + 7 * n)
    IN  Label(iso.year, iso.week, TRUE)

\* next_week of the iterations i = 1..N_WEEKS of the yearly loop
YearlyLoopWeeks(START_WEEK, N_WEEKS) == [i \in 1..N_WEEKS |-> add_weeks(START_WEEK, i)]

\* the number of ISO weeks of a year: 53 when 1 January is a Thursday, or a
\* Wednesday of a leap year
WeeksIn(y) ==
    IF Weekday(Jan1(y)) = 3 \/ (IsLeap(y) /\ Weekday(Jan1(y)) = 2) THEN 53 ELSE 52
\* the week after an ISO week
IsoSucc(yw) ==
    IF yw[2] < WeeksIn(yw[1]) THEN <<yw[1], yw[2] + 1>> ELSE <<yw[1] + 1, 1>>
YW(label) == <<label.year, label.week>>

\* every ISO week of 2019..2027; 2020 and 2026 have 53 weeks
StartWeeks ==
    {Label(y, w, pad) : y \in 2019..2027, w \in 1..53, pad \in BOOLEAN} \ 
        {l \in [year : 2019..2027, week : {53}, pad : BOOLEAN] : WeeksIn(l.year) = 52}

WeekIdSequence ==
    /\ wk.fn = "none"
    /\ \E start \in StartWeeks, n \in 1..MaxWeeks, inc \in BOOLEAN :
          wk' = [fn |-> "week_id_sequence", start |-> start, n |-> n, inc |-> inc,
                 seq |-> week_id_sequence(start, n, inc)]
    /\ UNCHANGED <<coreVars, norm, yr, db, par, ace, loose, gain, cm, uq>>

WeekSequence ==
    /\ wk.fn = "none"
    /\ \E start \in StartWeeks, n \in 1..MaxWeeks, inc \in BOOLEAN :
          wk' = [fn |-> "week_sequence", start |-> start, n |-> n, inc |-> inc,
                 seq |-> week_sequence(start, n, inc)]
    /\ UNCHANGED <<coreVars, norm, yr, db, par, ace, loose, gain, cm, uq>>

AddWeeks ==
    /\ wk.fn = "none"
    /\ \E start \in {l \in StartWeeks : l.pad}, n \in 1..MaxWeeks :
          wk' = [fn |-> "add_weeks", start |-> start, n |-> n, inc |-> FALSE,
                 seq |-> YearlyLoopWeeks(start, n)]
    /\ UNCHANGED <<coreVars, norm, yr, db, par, ace, loose, gain, cm, uq>>

\* the run over the labels ends
TakeWeeks ==
    /\ wk.fn # "none"
    /\ wk' = NoWeeks
    /\ UNCHANGED <<coreVars, norm, yr, db, par, ace, loose, gain, cm, uq>>

NextWeek == WeekIdSequence \/ WeekSequence \/ AddWeeks \/ TakeWeeks

SpecWeek == Init /\ [][NextWeek]_vars

(***************************************************************************)
(* Week sequences                                                          *)
(***************************************************************************)
WeeksBuilt == wk.fn # "none"

\* C12: a week-sequence builder returns exactly N labels; the first is the start
\* week if it is included and the week after it otherwise, and each further
\* label is the ISO week that follows the previous one, so (ISO year, ISO week)
\* strictly increases without gaps or duplicates across year boundaries and
\* 53-week years; the week after 2025-W46 is 2025-W47.
C12_ConsecutiveIsoWeeks ==
    WeeksBuilt =>
        /\ Len(wk.seq) = wk.n
        /\ YW(wk.seq[1]) = IF wk.inc THEN YW(wk.start) ELSE IsoSucc(YW(wk.start))
        /\ \A i \in 1..(wk.n - 1) :
              /\ YW(wk.seq[i + 1]) = IsoSucc(YW(wk.seq[i]))
              /\ \/ wk.seq[i + 1].year > wk.seq[i].year
                 \/ /\ wk.seq[i + 1].year = wk.seq[i].year
                    /\ wk.seq[i + 1].week > wk.seq[i].week
        /\ (YW(wk.start) = <<2025, 46>> /\ ~wk.inc) => YW(wk.seq[1]) = <<2025, 47>>

\* a sequence that starts in week 52 of a 53-week year and ends in the next year
C12_Witness ==
    /\ WeeksBuilt
    /\ wk.n = 3
    /\ YW(wk.start) = <<2020, 52>>
    /\ wk.inc
    /\ YW(wk.seq[2]) = <<2020, 53>>
    /\ YW(wk.seq[3]) = <<2021, 1>>

(***************************************************************************)
(* Yearly orchestrators: year_orchestrator_v12.py main ("v12"),            *)
(* year_orchestrator_dual_v2.py run_full_year ("exp3") and                 *)
(* Experiment_Yearly_Loop_OpenAI_Claude_v3.py main ("exp1")                *)
(*                                                                         *)
(* Weeks are counted from the start week, which is week 0.  A body state   *)
(* is one level standing for weight, muscle and fat; a week of simulation  *)
(* moves it by one level.  The store is the tree of the orchestrator that  *)
(* runs; n counts the set() calls on a document, v is the fingerprint of a *)
(* diet.                                                                   *)
(***************************************************************************)
Orchestrators == {"v12", "exp3", "exp1"}

\* the weeks a run goes through, in order
RunWeeks(orch, inc) ==
    IF orch = "exp1" THEN [i \in 1..YearWeeks |-> i]
    ELSE [i \in 1..YearWeeks |-> IF inc THEN i - 1 ELSE i]
FirstWeek(y) == RunWeeks(y.orch, y.inc)[1]
LastWeek(y) == RunWeeks(y.orch, y.inc)[YearWeeks]

\* the week whose updated persona is the input of week w
SourceWeek(y) ==
    CASE y.orch = "v12" -> IF y.w = FirstWeek(y) THEN 0 ELSE y.w - 1
      [] y.orch = "exp3" -> y.w
      [] OTHER -> y.w - 1

Exists(doc) == doc.n > 0
Slot(y) == <<y.pi, y.w>>

\* the log is handed on to build_updated_persona and not stored
write_logs_NotStored(d, s, logs) == d
\* write_diet / write_logs / write_updated_persona / write_doc: document.set(data)
write_diet(d, s, v) == [d EXCEPT !.diet[s] = [NoDoc EXCEPT !.n = d.diet[s].n + 1, !.v = v]]
write_logs(d, s, logs) == [d EXCEPT !.logs[s] = [logs EXCEPT !.n = d.logs[s].n + 1]]
\* the derived state written over the baseline record
write_updated_persona_Baseline(d, s, body) == [d EXCEPT !.base[s[1]] = body]
write_updated_persona(d, s, body) ==
    [d EXCEPT !.up[s] = [NoDoc EXCEPT !.n = d.up[s].n + 1, !.post = body]]

\* "Weight_kg": logs.get("Post_weight_kg") and likewise muscle, fat
build_updated_persona(prev, logs) == logs.post

\* the loop leaves after the fourth collision
GiveUp_Fifth(attempt) == attempt > 4
\* if attempt > 3: break
GiveUp(attempt) == attempt > 3

\* the Pre_ and Post_ values of a log computed from the persona it was given
SimulatedLog(persona) == [NoDoc EXCEPT !.pre = persona, !.post = persona + 1]

\* the seeding layer simulates the start week on the diet the first-week pipeline
\* stored for it, and stores the week's log and then its updated persona
SeedStartWeek ==
    /\ yr.orch = "none"
    /\ \A pid \in YPids : ~Exists(db.up[<<pid, 0>>])
    /\ LET seeded(s) ==
               LET logs == SimulatedLog(BaseBody(s[1]))
                   d1 == write_diet(db, s, 1)
                   d2 == write_logs(d1, s, logs)
               IN  write_updated_persona(d2, s, build_updated_persona(BaseBody(s[1]), logs))
       IN  db' = [db EXCEPT !.diet = [s \in Slots3 |->
                                IF s[2] = 0 THEN seeded(s).diet[s] ELSE db.diet[s]],
                            !.logs = [s \in Slots3 |->
                                IF s[2] = 0 THEN seeded(s).logs[s] ELSE db.logs[s]],
                            !.up = [s \in Slots3 |->
                                IF s[2] = 0 THEN seeded(s).up[s] ELSE db.up[s]]]
    /\ UNCHANGED <<coreVars, norm, wk, yr, par, ace, loose, gain, cm, uq>>

\* main() / run_full_year() is started on the store as it is
StartRun ==
    /\ yr.phase \in {"idle", "done", "aborted"}
    /\ yr.run < MaxRuns
    /\ \E orch \in Orchestrators, inc \in BOOLEAN :
          /\ yr.orch \in {"none", orch}
          /\ orch = "exp1" => ~inc
          /\ yr.orch = orch => yr.inc = inc
          /\ yr' = [NoRun EXCEPT !.orch = orch, !.inc = inc, !.run = yr.run + 1,
                                 !.w = RunWeeks(orch, inc)[1], !.pi = 1, !.phase = "read"]
    /\ UNCHANGED <<coreVars, norm, wk, db, par, ace, loose, gain, cm, uq>>

\* the fingerprint sets are created once, before the loop over the weeks
Advance_SameSets(y) ==
    LET z == [y EXCEPT !.persona = 0, !.src = "none", !.attempt = 0, !.logs = NoDoc,
                       !.phase = "read"]
    IN  IF y.pi < YearPids THEN [z EXCEPT !.pi = y.pi + 1]
        ELSE IF y.w < LastWeek(y)
             THEN [z EXCEPT !.pi = 1, !.w = y.w + 1]
             ELSE [z EXCEPT !.phase = "done"]

\* the next persona of the week, the next week with fresh fingerprint sets, or the end
Advance(y) ==
    LET z == [y EXCEPT !.persona = 0, !.src = "none", !.attempt = 0, !.logs = NoDoc,
                       !.phase = "read"]
    IN  IF y.pi < YearPids THEN [z EXCEPT !.pi = y.pi + 1]
        ELSE IF y.w < LastWeek(y)
             THEN [z EXCEPT !.pi = 1, !.w = y.w + 1, !.used_diet_fps = {},
                            !.used_text_fps = {}]
             ELSE [z EXCEPT !.phase = "done"]

\* read_updated_persona(db, pid, prev) or read_persona_base(db, pid)
ReadPersona ==
    /\ yr.phase = "read"
    /\ LET src == db.up[<<yr.pi, SourceWeek(yr)>>]
       IN  yr' = [yr EXCEPT !.persona = IF Exists(src) THEN src.post ELSE db.base[yr.pi],
                            !.src = IF Exists(src) THEN "updated" ELSE "base",
                            !.phase = "diet", !.attempt = 0]
    /\ UNCHANGED <<coreVars, norm, wk, db, par, ace, loose, gain, cm, uq>>

\* one pass of the diet loop of v12; the diet step of exp3 and exp1
DietStep ==
    /\ yr.phase = "diet"
    /\ \/ /\ yr.orch = "v12"
          /\ \E v \in 1..Variants :
                LET dup == v \in yr.used_diet_fps
                    try == [nonce |-> yr.attempt, dup |-> dup]
                    y1 == [yr EXCEPT !.tries = IF yr.attempt = 0 THEN <<try>>
                                                ELSE Append(yr.tries, try),
                                     !.used_diet_fps = yr.used_diet_fps \cup {v}]
                IN  IF dup /\ ~GiveUp(yr.attempt + 1)
                    THEN /\ yr' = [y1 EXCEPT !.attempt = yr.attempt + 1]
                         /\ db' = db
                    ELSE /\ yr' = [y1 EXCEPT !.attempt = 0, !.phase = "logs"]
                         /\ db' = write_diet(db, Slot(yr), v)
       \/ /\ yr.orch = "exp3"
          /\ \E v \in 1..Variants : db' = write_diet(db, Slot(yr), v)
          /\ yr' = [yr EXCEPT !.phase = "logs"]
       \/ /\ yr.orch = "exp1"
          /\ IF Exists(db.diet[Slot(yr)])
             THEN db' = db
             ELSE \E v \in 1..Variants : db' = write_diet(db, Slot(yr), v)
          /\ yr' = [yr EXCEPT !.phase = "logs"]
    /\ UNCHANGED <<coreVars, norm, wk, par, ace, loose, gain, cm, uq>>

\* one pass of the logs loop of v12; the simulation step of exp3 and exp1
LogsStep ==
    /\ yr.phase = "logs"
    /\ \/ /\ yr.orch = "v12"
          /\ \E v \in 1..Variants :
                LET dup == v \in yr.used_text_fps
                    try == [nonce |-> yr.attempt, dup |-> dup]
                    y1 == [yr EXCEPT !.tries = IF yr.attempt = 0 THEN <<try>>
                                                ELSE Append(yr.tries, try),
                                     !.used_text_fps = yr.used_text_fps \cup {v}]
                IN  IF dup /\ ~GiveUp(yr.attempt + 1)
                    THEN /\ yr' = [y1 EXCEPT !.attempt = yr.attempt + 1]
                         /\ db' = db
                    ELSE /\ yr' = [y1 EXCEPT !.attempt = 0, !.phase = "update",
                                             !.logs = SimulatedLog(yr.persona)]
                         /\ db' = write_logs(db, Slot(yr), SimulatedLog(yr.persona))
       \/ /\ yr.orch = "exp3"
          /\ \E v \in 1..Variants :
                /\ db' = write_logs(db, Slot(yr), SimulatedLog(yr.persona))
                /\ yr' = [yr EXCEPT !.phase = "update", !.logs = SimulatedLog(yr.persona)]
       \/ /\ yr.orch = "exp1"
          /\ IF Exists(db.logs[Slot(yr)])
             THEN /\ db' = db
                  /\ yr' = [yr EXCEPT !.phase = "update", !.logs = db.logs[Slot(yr)]]
             ELSE \E v \in 1..Variants :
                     /\ db' = write_logs(db, Slot(yr), SimulatedLog(yr.persona))
                     /\ yr' = [yr EXCEPT !.phase = "update",
                                         !.logs = SimulatedLog(yr.persona)]
    /\ UNCHANGED <<coreVars, norm, wk, par, ace, loose, gain, cm, uq>>

\* build_updated_persona / build_next_persona and the write of the week's snapshot
UpdateStep ==
    /\ yr.phase = "update"
    /\ IF yr.orch = "exp1" /\ Exists(db.up[Slot(yr)])
       THEN db' = db
       ELSE db' = write_updated_persona(db, Slot(yr), build_updated_persona(yr.persona, yr.logs))
    /\ yr' = Advance([yr EXCEPT !.visited = yr.visited \cup {Slot(yr)}])
    /\ UNCHANGED <<coreVars, norm, wk, par, ace, loose, gain, cm, uq>>

\* a provider call, the simulator or a store access raises while a persona is
\* processed: exp1 prints the error and continues, v12 and exp3 do not catch it
Raise ==
    /\ yr.phase \in {"read", "diet", "logs", "update"}
    /\ IF yr.orch = "exp1"
       THEN yr' = Advance([yr EXCEPT !.failed = yr.failed \cup {Slot(yr)}])
       ELSE yr' = [yr EXCEPT !.phase = "aborted"]
    /\ UNCHANGED <<coreVars, norm, wk, db, par, ace, loose, gain, cm, uq>>

NextYear ==
    SeedStartWeek \/ StartRun \/ ReadPersona \/ DietStep \/ LogsStep \/ UpdateStep \/ Raise

SpecYear == Init /\ [][NextYear]_vars

(***************************************************************************)
(* Orchestrator runs                                                       *)
(***************************************************************************)
PersonaRead == yr.phase \in {"diet", "logs", "update"}
InLoop == yr.orch = "v12" /\ yr.phase \in {"diet", "logs"}

\* C13: in every week of a run but the first, the persona state the week is given
\* is the Post_ state of the updated persona written for the week before it, and
\* the log reports it as Pre_; the baseline persona is the input of the first week
\* only.
C13_StateCarriedForward ==
    (PersonaRead /\ yr.w # FirstWeek(yr)) =>
        /\ yr.src = "updated"
        /\ yr.persona = db.up[<<yr.pi, yr.w - 1>>].post
        /\ yr.phase = "update" => yr.logs.pre = db.up[<<yr.pi, yr.w - 1>>].post

\* C14: no step of a run writes the baseline record personas/{pid}: it keeps its
\* seeded value, and the derived state of a week is in the week's own document.
C14_BaselineNeverWritten ==
    /\ db.base = SeededStore.base
    /\ \A s \in Slots3 : s \in yr.visited => Exists(db.up[s])

\* a run has processed a persona's last week and stored a state that differs from
\* the baseline
C14_Witness ==
    /\ yr.phase = "done"
    /\ <<1, LastWeek(yr)>> \in yr.visited
    /\ db.up[<<1, LastWeek(yr)>>].post # db.base[1]

\* C15: each of the diet, the log and the updated persona of a persona-week is
\* created at most once over any number of runs: a document that exists is reused
\* and never written again.
C15_CreatedOnce ==
    \A s \in Slots3 : db.diet[s].n <= 1 /\ db.logs[s].n <= 1 /\ db.up[s].n <= 1

\* C18: a uniqueness loop passes the nonces 0, 1, 2, ... in order, invokes the
\* generator again only after a collision, and makes at most 4 invocations
\* (nonces 0..3) for a persona-week.
C18_AtMostFourInvocations ==
    yr.orch = "v12" =>
        /\ Len(yr.tries) <= 4
        /\ \A i \in 1..Len(yr.tries) : yr.tries[i].nonce = i - 1
        /\ \A i \in 1..(Len(yr.tries) - 1) : yr.tries[i].dup
        /\ InLoop /\ yr.attempt > 0 => yr.attempt = Len(yr.tries) /\ yr.attempt <= 3

\* the diet loop has left after four collisions and the duplicate was stored
C18_Witness ==
    /\ yr.orch = "v12"
    /\ yr.phase = "logs"
    /\ yr.attempt = 0
    /\ Len(yr.tries) = 4
    /\ \A i \in 1..4 : yr.tries[i].dup
    /\ Exists(db.diet[Slot(yr)])
    /\ \E pid \in YPids : pid # yr.pi /\ db.diet[<<pid, yr.w>>].v = db.diet[Slot(yr)].v

\* C20: when processing a persona fails the run records the failure and goes on:
\* it is never cut short, and at its end every persona-week of the run was either
\* processed or recorded as failed.
C20_RunSurvivesFailure ==
    /\ yr.phase # "aborted"
    /\ yr.phase = "done" =>
          \A pid \in YPids, i \in 1..YearWeeks :
              <<pid, RunWeeks(yr.orch, yr.inc)[i]>> \in yr.visited \cup yr.failed

(***************************************************************************)
(* The diet loop of year_orchestrator_v12.py with the personas of one week *)
(* run side by side: each persona generates on its own, and the membership *)
(* test with the insertion into used_diet_fps is one step                  *)
(***************************************************************************)
\* the set a persona's membership test reads is the one it saw when it generated
TestedSet_Stale(pid) == par.proc[pid].seen
\* fp not in used_diet_fps, on the set as it is when the step is taken
TestedSet(pid) == par.used_diet_fps

\* diet = get_diet_from_ace(..., diversify_nonce=attempt); fp = make_diet_fingerprint(diet)
Generate(pid) ==
    /\ par.proc[pid].pc \in {"start", "generate"}
    /\ \E v \in 1..Variants :
          par' = [par EXCEPT !.proc[pid].pc = "test", !.proc[pid].fp = v,
                             !.proc[pid].seen = par.used_diet_fps]
    /\ UNCHANGED <<coreVars, norm, wk, yr, db, ace, loose, gain, cm, uq>>

\* if fp not in used_diet_fps: add, break; else attempt += 1, break after the fourth
TestAndInsert(pid) ==
    /\ par.proc[pid].pc = "test"
    /\ LET me == par.proc[pid]
       IN  IF me.fp \notin TestedSet(pid)
           THEN par' = [par EXCEPT !.used_diet_fps = par.used_diet_fps \cup {me.fp},
                                   !.proc[pid].pc = "done", !.proc[pid].fresh = me.fp]
           ELSE par' = [par EXCEPT !.proc[pid].attempt = me.attempt + 1,
                                   !.proc[pid].pc = IF GiveUp(me.attempt + 1) THEN "done"
                                                    ELSE "generate"]
    /\ UNCHANGED <<coreVars, norm, wk, yr, db, ace, loose, gain, cm, uq>>

\* the week is over: the next week starts with an empty set
EndWeek ==
    /\ \A pid \in PPids : par.proc[pid].pc = "done"
    /\ par' = NoWeek
    /\ UNCHANGED <<coreVars, norm, wk, yr, db, ace, loose, gain, cm, uq>>

NextPar == (\E pid \in PPids : Generate(pid) \/ TestAndInsert(pid)) \/ EndWeek

SpecPar == Init /\ [][NextPar]_vars

(***************************************************************************)
(* Uniqueness under concurrency                                            *)
(***************************************************************************)
AcceptedFresh(pid) == par.proc[pid].fresh # 0

\* C19: with the membership test and the insertion taken as one atomic step, no
\* two personas of a week both accept the same fingerprint as non-duplicate, in
\* any interleaving; a fingerprint accepted as non-duplicate is in the week's set.
C19_NoSharedFreshFingerprint ==
    /\ \A p, q \in PPids :
          (p # q /\ AcceptedFresh(p) /\ AcceptedFresh(q)) =>
              par.proc[p].fresh # par.proc[q].fresh
    /\ \A p \in PPids : AcceptedFresh(p) => par.proc[p].fresh \in par.used_diet_fps

\* two personas generated the same fingerprint before either tested it; one
\* accepted it, the other met the collision and accepted a different one
C19_Witness ==
    \E p, q \in PPids :
        /\ p # q
        /\ AcceptedFresh(p) /\ AcceptedFresh(q)
        /\ par.proc[q].attempt > 0
        /\ par.proc[q].seen # {}
        /\ par.proc[p].fresh # par.proc[q].fresh

(***************************************************************************)
(* Diet clients and provider failures: get_diet_from_ace                   *)
(* (acegpt_client_v12.py) and call_acegpt (acegpt_client.py)               *)
(***************************************************************************)
\* what one request to the provider comes back with
ProviderReplies ==
    {"request_error",     \* requests.post raises
     "http_error",        \* status code other than 200
     "body_not_json",     \* status 200, r.json() raises
     "empty_text",        \* no generated text
     "non_json",          \* text without a JSON object
     "not_object",        \* fenced JSON that is an array or a string
     "missing_fields",    \* an object without the schema's fields
     "text_fields",       \* an object with non-numeric values
     "ok"}

\* the mapping extract_first_json of utils_json_v12.py returns for a reply with braces
ParsedReply(reply) ==
    CASE reply = "missing_fields" -> BlankObj
      [] reply = "text_fields" -> RawDiet(RText, RNone, "strings", "nested", "")
      [] OTHER -> RawDiet(Num(20000), Num(800), "equal", "same", "Provider note.")

\* _call_chat / _call_text / the empty-content test / extract_first_json raise
RaisesInTry(reply) ==
    reply \in {"request_error", "http_error", "body_not_json", "empty_text", "non_json",
               "not_object"}

\* get_diet_from_ace: two attempts inside try/except, then the fallback
get_diet_from_ace(replies, pid, week_id, persona, nonce) ==
    LET raw == IF ~RaisesInTry(replies[1]) THEN ParsedReply(replies[1])
               ELSE IF ~RaisesInTry(replies[2]) THEN ParsedReply(replies[2])
               ELSE _fallback
    IN  [kind |-> "diet",
         diet |-> DiversifyPass(ensure_diet_shape(raw), pid, week_id, persona, nonce)]

\* the object call_acegpt fills from _compose_meal and recompute_totals_from_meals
ComposedDiet == RawDiet(Num(26953), Num(1000), "equal", "padded", "Persona note.")

\* call_acegpt(persona_id, persona_data)
call_acegpt(reply) ==
    CASE reply \in {"request_error", "http_error"} -> [kind |-> "None", diet |-> BlankObj]
      [] reply = "body_not_json" -> [kind |-> "ValueError", diet |-> BlankObj]
      [] reply = "not_object" -> [kind |-> "AttributeError", diet |-> BlankObj]
      [] OTHER -> [kind |-> "diet", diet |-> ensure_diet_shape(ComposedDiet)]

GetDietFromAce ==
    /\ ace.fn = "none"
    /\ \E r1, r2 \in ProviderReplies, pid \in Pids, nonce \in 0..MaxNonce :
          LET res == get_diet_from_ace(<<r1, r2>>, pid, 1, PersonaOf(pid), nonce)
          IN  ace' = [fn |-> "get_diet_from_ace", replies |-> <<r1, r2>>,
                      kind |-> res.kind, diet |-> res.diet]
    /\ UNCHANGED <<coreVars, norm, wk, yr, db, par, loose, gain, cm, uq>>

CallAcegpt ==
    /\ ace.fn = "none"
    /\ \E r \in ProviderReplies :
          ace' = [fn |-> "call_acegpt", replies |-> <<r>>,
                  kind |-> call_acegpt(r).kind, diet |-> call_acegpt(r).diet]
    /\ UNCHANGED <<coreVars, norm, wk, yr, db, par, loose, gain, cm, uq>>

\* the caller takes what the client gave back
TakeAce ==
    /\ ace.fn # "none"
    /\ ace' = NoCall
    /\ UNCHANGED <<coreVars, norm, wk, yr, db, par, loose, gain, cm, uq>>

NextAce == GetDietFromAce \/ CallAcegpt \/ TakeAce

SpecAce == Init /\ [][NextAce]_vars

(***************************************************************************)
(* Provider failures                                                       *)
(***************************************************************************)
\* four non-empty meal names, every macro and total a number
SchemaValid(o) ==
    /\ \A i \in Slots : o.names[i].k = "str" /\ o.names[i].s # ""
    /\ \A mk \in MKeySet : o.total[mk].k = "num"
    /\ \A mk \in MKeySet : \A i \in Slots : o.meal[mk][i].k = "num"

\* C16: whatever the provider replies, a diet client returns a schema-valid diet:
\* it never raises and never returns no diet.
C16_AlwaysSchemaValidDiet ==
    ace.fn # "none" => ace.kind = "diet" /\ SchemaValid(ace.diet)

(***************************************************************************)
(* simulate_week_with_claude on loosely typed persona records              *)
(* (claude_client_v12.py)                                                  *)
(***************************************************************************)
\* what a persona field can hold: nothing, null, a number, or a string
LooseVals == {"absent", "null", "zero", "number", "empty string", "numeric string", "word"}

\* the persona fields the fallback and its text builders read
LooseFields == {"Weight_kg", "Adherence_propensity", "Sleep_hours",
                "Primary_goal", "Budjet_SAR_per_day", "Cooking_skill"}

\* persona records: a well-typed record with up to two fields replaced
TypedPersona ==
    [f \in LooseFields |->
        IF f \in {"Weight_kg", "Adherence_propensity", "Sleep_hours"} THEN "number" ELSE "word"]
LoosePersonas ==
    { [TypedPersona EXCEPT ![f] = a, ![g] = b] :
        f \in LooseFields, g \in LooseFields, a \in LooseVals, b \in LooseVals }

\* bool(x) of a field value: None, 0 and "" are falsy, an absent key gives the default
Truthy(v) == v \in {"number", "numeric string", "word"}

\* `float(persona.get(k, d) or d)`: "ok" or the exception float() raises
FloatOrDefault(v) == IF Truthy(v) /\ v = "word" THEN "ValueError" ELSE "ok"

\* `(persona.get(k) or "").lower()`: "ok" or the exception a number raises
LowerOrEmpty(v) == IF Truthy(v) /\ v = "number" THEN "AttributeError" ELSE "ok"

\* the first step of a sequence of steps that raises, "ok" when none does
RECURSIVE FirstRaise(_)
FirstRaise(steps) ==
    IF steps = <<>> THEN "ok"
    ELSE IF Head(steps) # "ok" THEN Head(steps)
    ELSE FirstRaise(Tail(steps))

\* _mk_feedback: goal, budget and cook are lowered, adherence is read as a float
MkFeedbackRaises(persona) ==
    FirstRaise(<<LowerOrEmpty(persona["Primary_goal"]),
                 LowerOrEmpty(persona["Budjet_SAR_per_day"]),
                 LowerOrEmpty(persona["Cooking_skill"]),
                 FloatOrDefault(persona["Adherence_propensity"])>>)

\* _mk_notes: Sleep_hours is read as a float
MkNotesRaises(persona) == FloatOrDefault(persona["Sleep_hours"])

\* the statements of simulate_week_with_claude_fallback in program order
FallbackRaises(persona) ==
    FirstRaise(<<FloatOrDefault(persona["Weight_kg"]),
                 FloatOrDefault(persona["Adherence_propensity"]),
                 LowerOrEmpty(persona["Primary_goal"]),
                 FloatOrDefault(persona["Sleep_hours"]),
                 MkFeedbackRaises(persona),
                 MkNotesRaises(persona)>>)

\* the keys of a weekly log
LOG_KEYS ==
    {"Date", "Time", "free_text_feedback", "notes", "daily_avg_kcal",
     "Pre_weight_kg", "Pre_muscle_kg", "Pre_fat_pct",
     "Post_weight_kg", "Post_muscle_kg", "Post_fat_pct",
     "delta_weight_kg", "delta_muscle_kg", "delta_fat_pct", "sleep_avg_hours"}

\* what the provider call of simulate_week_with_claude ends with
SimReplies == {"request_error", "missing_key", "complete"}

\* simulate_week_with_claude: the provider's log when it is complete, else the
\* fallback, whose exceptions leave the except clause
SimulateLoose(persona, reply) ==
    IF reply = "complete" THEN [kind |-> "log", keys |-> LOG_KEYS]
    ELSE IF FallbackRaises(persona) = "ok" THEN [kind |-> "log", keys |-> LOG_KEYS]
    ELSE [kind |-> FallbackRaises(persona), keys |-> {}]

SimulateLoosePersona ==
    /\ loose.fn = "none"
    /\ \E persona \in LoosePersonas, reply \in SimReplies :
          loose' = [fn |-> "simulate_week_with_claude", persona |-> persona, reply |-> reply,
                    kind |-> SimulateLoose(persona, reply).kind,
                    keys |-> SimulateLoose(persona, reply).keys]
    /\ UNCHANGED <<coreVars, norm, wk, yr, db, par, ace, gain, cm, uq>>

\* the caller takes the log or the exception
TakeLoose ==
    /\ loose.fn # "none"
    /\ loose' = NoSim
    /\ UNCHANGED <<coreVars, norm, wk, yr, db, par, ace, gain, cm, uq>>

NextLoose == SimulateLoosePersona \/ TakeLoose

SpecLoose == Init /\ [][NextLoose]_vars

\* C17: for every persona record whose fields are absent, null, numbers or
\* strings, simulate_week_with_claude returns a log with the 15 keys and never raises.
C17_CompleteLogNeverRaises ==
    loose.fn # "none" => loose.kind = "log" /\ loose.keys = LOG_KEYS

(***************************************************************************)
(* Muscle-gain personas in build_week1_payloads (utils_sim_dual.py) and    *)
(* simulate_week_with_claude_fallback (claude_client_v12.py)               *)
(***************************************************************************)
\* pre-states: those of the simulators, one above and one just below the upper
\* clamp of the muscle mass (120 kg)
GainBodies ==
    SimBodies \cup { <<Num(150000), Num(125000), Num(30000)>>,
                     <<Num(95000), Num(119800), Num(20000)>> }
\* habits: those of the simulators, adherence 0 and an adherence above 1
GainHabits == SimHabits \cup { <<Num(0), 3, 70>>, <<Num(300), 4, 70>> }
GainPersonas ==
    { [Weight_kg |-> b[1], Muscle_mass_kg |-> b[2], Fat_percent |-> b[3],
       Primary_goal |-> "muscle gain", Adherence_propensity |-> h[1],
       Days_per_week |-> h[2], Sleep_hours |-> h[3]] :
        b \in GainBodies, h \in GainHabits }
GainKcal == SimKcal \cup {Num(12000), Num(40000)}

\* rnd.uniform(dw_lo, dw_hi) of build_week1_payloads, before the factor
\* (1 + 0.6 * tighten), in units of 0.0001 kg
WeightDraw(pid, week_id, goal) ==
    10 * Uniform(_goal_deltas(goal)[1].lo, _goal_deltas(goal)[1].hi,
                 Draw(_seed_from(pid, week_id), 1))

\* dW of the fallback, in units of 0.0001 kg
FallbackWeightDelta(persona, pid, week_id, salt) ==
    FallbackDeltas(persona.Primary_goal, OrDefault(persona.Adherence_propensity, 65),
                   Draw(_rng(pid, week_id, salt), 1), Draw(_rng(pid, week_id, salt), 2)).dW

\* the adherence number the fallback computes with, in hundredths
AdherenceOf(persona) == OrDefault(persona.Adherence_propensity, 65)

GainWeek1 ==
    /\ gain.fn = "none"
    /\ \E persona \in GainPersonas, kcalv \in GainKcal, pid \in Pids, week \in Weeks :
          LET l == build_week1_payloads(pid, week, persona, kcalv)
          IN  gain' = [fn |-> "build_week1_payloads", adher |-> 0,
                       pre_m |-> l.Pre_muscle_kg, post_m |-> l.Post_muscle_kg,
                       dW |-> WeightDraw(pid, week, persona.Primary_goal)]
    /\ UNCHANGED <<coreVars, norm, wk, yr, db, par, ace, loose, cm, uq>>

GainFallback ==
    /\ gain.fn = "none"
    /\ \E persona \in GainPersonas, kcalv \in GainKcal, pid \in Pids, week \in Weeks,
          salt \in 0..MaxNonce :
          /\ NumericAdherence(persona)
          /\ LET l == simulate_week_with_claude_fallback(persona, kcalv, pid, week, salt)
             IN  gain' = [fn |-> "simulate_week_with_claude_fallback",
                          adher |-> AdherenceOf(persona),
                          pre_m |-> l.Pre_muscle_kg, post_m |-> l.Post_muscle_kg,
                          dW |-> FallbackWeightDelta(persona, pid, week, salt)]
    /\ UNCHANGED <<coreVars, norm, wk, yr, db, par, ace, loose, cm, uq>>

\* the orchestrator stores the log
TakeGain ==
    /\ gain.fn # "none"
    /\ gain' = NoGain
    /\ UNCHANGED <<coreVars, norm, wk, yr, db, par, ace, loose, cm, uq>>

NextGain == GainWeek1 \/ GainFallback \/ TakeGain

SpecGain == Init /\ [][NextGain]_vars

(***************************************************************************)
(* Muscle gain                                                             *)
(***************************************************************************)
MuscleKept == gain.post_m >= gain.pre_m
WeightDrawInRange == gain.dW >= -1000 /\ gain.dW <= 6000
\* the upper clamp of post_mus, in thousandths of a kg
MuscleCap == 120000

\* C21 as stated: for every pre-state and every adherence >= 0 the muscle mass of a
\* muscle-gain persona does not drop and the weight delta drawn lies in [-0.1, +0.6] kg.
C21_MuscleNeverDrops ==
    gain.fn # "none" => MuscleKept /\ WeightDrawInRange

\* C21 amended: the muscle mass does not drop and the weight delta drawn lies in
\* [-0.1, +0.6] kg in every week-1 log whose Pre_muscle_kg is at most the clamp's
\* 120 kg and in every fallback log whose adherence is at most 1; in the fallback
\* the muscle mass does not drop for any adherence >= 0.
C21_MuscleKeptBelowCap ==
    /\ (gain.fn = "build_week1_payloads" /\ gain.pre_m <= MuscleCap)
          => MuscleKept /\ WeightDrawInRange
    /\ gain.fn = "build_week1_payloads" => WeightDrawInRange
    /\ gain.fn = "simulate_week_with_claude_fallback" => MuscleKept
    /\ (gain.fn = "simulate_week_with_claude_fallback" /\ gain.adher <= 100)
          => WeightDrawInRange

\* a week-1 log whose muscle mass was held at the clamp and yet did not drop,
\* with a negative weight draw
C21_Witness ==
    /\ gain.fn = "build_week1_payloads"
    /\ gain.pre_m < MuscleCap /\ gain.post_m = MuscleCap
    /\ gain.dW < 0

(***************************************************************************)
(* Difference from last week's diet                                        *)
(***************************************************************************)
SameNamesAsLast == \A i \in Slots : obj.names[i].s = LastObj.names[i].s
SameTotalsAsLast == \A mk \in MKeySet : obj.total[mk].v = LastObj.total[mk].v

\* C22: a diet diversify_meals returns while last_week_obj is a non-empty diet has
\* neither last week's meal name in all four slots nor last week's six totals.
C22_DiffersFromLastWeek ==
    (dpc = "done" /\ HasLast) => ~SameNamesAsLast /\ ~SameTotalsAsLast

\* a diet returned after a candidate that resembled last week's diet was
\* regenerated with the next nonce
C22_Witness ==
    /\ dpc = "done"
    /\ dargs.last = "stored"
    /\ depth > 0
    /\ ~_all_meals_identical(obj)

(***************************************************************************)
(* The retry loop of _compose_meal (acegpt_client.py), one attempt per     *)
(* step.  The stream of an attempt is _rng_for(persona_id, slot, attempt), *)
(* a SHA-256 of the three parts: over all persona ids it can be any        *)
(* stream, so each attempt takes any stream of the model.                  *)
(***************************************************************************)
Streams == 0..(NumStreams - 1)

InBand(kcal) == KcalBandLo <= kcal /\ kcal <= KcalBandHi

\* the composition of one attempt: its salt, its stream and its reconciled kcal
Composition(slot_idx, salt, stream) ==
    [salt |-> salt, stream |-> stream, kcal |-> _sum_macros(ComposeSlot(slot_idx, stream)).kcal]

\* call_acegpt enters _compose_meal(slot_idx, persona_id)
EnterCompose ==
    /\ cm.pc = "idle"
    /\ \E slot_idx \in Slots : cm' = [NoCompose EXCEPT !.pc = "loop", !.slot = slot_idx]
    /\ UNCHANGED <<coreVars, norm, wk, yr, db, par, ace, loose, gain, uq>>

\* one pass of `for attempt in range(12)`
LoopAttempt ==
    /\ cm.pc = "loop"
    /\ \E stream \in Streams :
          LET c == Composition(cm.slot, cm.attempt, stream)
          IN  cm' = IF InBand(c.kcal)
                    THEN [cm EXCEPT !.pc = "returned", !.drawn = cm.drawn + 1, !.ret = c]
                    ELSE [cm EXCEPT !.pc = IF cm.attempt + 1 < MaxAttempts
                                           THEN "loop" ELSE "fallback",
                                    !.attempt = cm.attempt + 1,
                                    !.drawn = cm.drawn + 1, !.last = c]
    /\ UNCHANGED <<coreVars, norm, wk, yr, db, par, ace, loose, gain, uq>>

\* after the loop: rng = _rng_for(persona_id, slot_idx, 999) and one more composition
FallbackAttemptStep ==
    /\ cm.pc = "fallback"
    /\ \E stream \in Streams :
          cm' = [cm EXCEPT !.pc = "returned", !.drawn = cm.drawn + 1,
                           !.ret = Composition(cm.slot, FallbackAttempt, stream)]
    /\ UNCHANGED <<coreVars, norm, wk, yr, db, par, ace, loose, gain, uq>>

\* call_acegpt stores text and macros in the diet
TakeComposed ==
    /\ cm.pc = "returned"
    /\ cm' = NoCompose
    /\ UNCHANGED <<coreVars, norm, wk, yr, db, par, ace, loose, gain, uq>>

NextTry == EnterCompose \/ LoopAttempt \/ FallbackAttemptStep \/ TakeComposed

SpecTry == Init /\ [][NextTry]_vars

\* C23: _compose_meal draws at most 12 compositions, salted 0..11, and returns the
\* first one in the band [250, 1200]; if none of the 12 is in the band it returns
\* the composition of the 12th attempt, not a newly drawn one.
C23_AtMostTwelveLastKept ==
    cm.pc = "returned" =>
        /\ cm.drawn <= MaxAttempts
        /\ cm.ret.salt \in 0..(MaxAttempts - 1)
        /\ cm.ret.salt = cm.attempt
        /\ cm.attempt > 0 => ~InBand(cm.last.kcal)
        /\ InBand(cm.ret.kcal) \/ (cm.ret = cm.last /\ cm.last.salt = MaxAttempts - 1)

(***************************************************************************)
(* The totals fallback of ensure_diet_shape                                *)
(***************************************************************************)
\* the six totals of the input as the first loop coerces them
InputTotal(mk) == _f(dargs.raw.total[mk], 0)
AllInputTotalsZero == \A mk \in MKeySet : InputTotal(mk) = 0

\* C24: ensure_diet_shape recomputes the totals from the per-meal sums only when
\* all six input totals are zero, and then all six; when at least one input total
\* is non-zero, no total is replaced by a per-meal sum.
C24_TotalsAllOrNothing ==
    Shaped =>
        /\ AllInputTotalsZero => \A mk \in MKeySet : obj.total[mk].v = MealSum(obj, mk)
        /\ ~AllInputTotalsZero => \A mk \in MKeySet : obj.total[mk].v = InputTotal(mk)

(***************************************************************************)
(* Split weights of a returned diet                                        *)
(***************************************************************************)
\* the four draws _split consumed for macro mk in the pass that returned
SplitDraws(mk) ==
    Draws4(_sha_seed(dargs.pid, dargs.week_id, "diet", dargs.nonce), 6 + 4 * (MIndex(mk) - 1))
\* the numerators xs of the weights xs[i] / (xs[1] + xs[2] + xs[3] + xs[4])
SplitWeights(mk) == _dirichlet4(SplitDraws(mk))

\* C25: in every diet diversify_meals returns, the four weights of each macro are
\* strictly positive fractions of their own sum (so they add up to 1) and every
\* per-meal value of every macro is strictly greater than zero after rounding.
C25_PositiveShares ==
    Returned =>
        \A mk \in MKeySet :
            /\ \A i \in Slots : SplitWeights(mk)[i] > 0
            /\ \A i \in Slots :
                  SplitWeights(mk)[i] <= SplitWeights(mk)[1] + SplitWeights(mk)[2]
                                           + SplitWeights(mk)[3] + SplitWeights(mk)[4]
            /\ \A i \in Slots : obj.meal[mk][i].v > 0

\* a returned diet in which some meal got the smallest weight (a draw of 0) of the
\* smallest total, the fiber
C25_Witness ==
    /\ Returned
    /\ \E i \in Slots : SplitDraws("fiber_g")[i] = 0 /\ obj.meal["fiber_g"][i].v > 0

(***************************************************************************)
(* Fingerprints of the diets accepted in one week of year_orchestrator_v12 *)
(***************************************************************************)
InWeek == yr.orch = "v12" /\ yr.phase \in {"read", "diet", "logs", "update"}
\* the personas of the current week whose diet loop has ended
DietAccepted ==
    {pid \in YPids : pid < yr.pi \/ (pid = yr.pi /\ yr.phase \in {"logs", "update"})}
FpOf(pid) == db.diet[<<pid, yr.w>>].v
\* the diet loop of the current persona has just ended
LoopLeft == yr.phase = "logs" /\ yr.attempt = 0
AllCollided == Len(yr.tries) = 4 /\ \A i \in 1..4 : yr.tries[i].dup

\* C26: within one week of a run the fingerprints of the accepted diets of
\* different personas are pairwise distinct, except for a persona whose four
\* attempts (nonces 0..3) all collided with fingerprints already in the week's
\* set; the set holds the week's accepted fingerprints only and is empty when a
\* week starts, so a fingerprint equal to one of another week triggers no retry.
C26_DistinctWithinWeek ==
    InWeek =>
        /\ yr.used_diet_fps = {FpOf(pid) : pid \in DietAccepted}
        /\ (yr.pi = 1 /\ yr.phase \in {"read", "diet"}) =>
              yr.used_diet_fps = {} /\ yr.attempt = 0
        /\ LoopLeft =>
              \/ \A pid \in DietAccepted \ {yr.pi} : FpOf(pid) # FpOf(yr.pi)
              \/ AllCollided

\* in the second week of a first run the second persona collided once and was
\* then given a diet that differs from the first persona's and has the
\* fingerprint of its own diet of the week before
C26_Witness ==
    /\ InWeek
    /\ yr.run = 1
    /\ yr.w > FirstWeek(yr)
    /\ yr.pi = 2
    /\ LoopLeft
    /\ Len(yr.tries) = 2
    /\ yr.tries[1].dup
    /\ FpOf(2) # FpOf(1)
    /\ FpOf(2) = db.diet[<<2, yr.w - 1>>].v

(***************************************************************************)
(* Order of the three writes of a persona-week                             *)
(***************************************************************************)
\* C27: for every persona-week the documents are stored in the order diet, log,
\* updated persona: the log of a week is written only after the week's diet was
\* obtained and the updated persona only after the week's log, so at every point
\* of every run, an aborted one included, a week that has an updated persona has
\* a log and a week that has a log has a diet.
C27_DietThenLogThenPersona ==
    /\ \A s \in Slots3 :
          /\ db.up[s].n <= db.logs[s].n
          /\ db.logs[s].n <= db.diet[s].n
          /\ Exists(db.up[s]) => Exists(db.logs[s])
    /\ yr.phase = "logs" => Exists(db.diet[Slot(yr)])
    /\ yr.phase = "update" => Exists(db.logs[Slot(yr)]) /\ Exists(db.diet[Slot(yr)])

\* a run was aborted between the write of a week's log and the write of its
\* updated persona, after it had stored all three documents of another persona
C27_Witness ==
    /\ yr.phase = "aborted"
    /\ Exists(db.logs[Slot(yr)])
    /\ db.up[Slot(yr)].n < db.logs[Slot(yr)].n
    /\ \E s \in yr.visited : s # Slot(yr) /\ Exists(db.up[s])

(***************************************************************************)
(* The texts _compose_meal returns in one process run (acegpt_client.py):  *)
(* USED_MEAL_TEXTS is a module-level set, and the stream of a composition  *)
(* depends on persona id, slot and attempt only, so a persona id and slot  *)
(* processed again compose the same base text                              *)
(***************************************************************************)
\* call_acegpt: text, m = _compose_meal(idx, persona_id)
ComposeMealCall ==
    /\ Len(uq.rets) < MaxCalls
    /\ \E slot_idx \in Slots, persona_id \in 1..UniqPids :
          LET res == _compose_meal(slot_idx, persona_id, uq.used)
          IN  uq' = [used |-> res.used, rets |-> Append(uq.rets, res.text)]
    /\ UNCHANGED <<coreVars, norm, wk, yr, db, par, ace, loose, gain, cm>>

\* the process ends and USED_MEAL_TEXTS with it
EndRun ==
    /\ uq.rets # <<>>
    /\ uq' = NoTexts
    /\ UNCHANGED <<coreVars, norm, wk, yr, db, par, ace, loose, gain, cm>>

NextUniq == ComposeMealCall \/ EndRun

SpecUniq == Init /\ [][NextUniq]_vars

\* C28: every meal text _ensure_unique (and hence _compose_meal) returns during
\* one process run differs from every text it returned earlier in that run, for
\* any sequence of calls, three or more calls with the same base text included.
C28_NeverReturnsEarlierText ==
    \A i, j \in 1..Len(uq.rets) : i < j => uq.rets[i] # uq.rets[j]

(***************************************************************************)
(* The window of meal names of diversify_meals                             *)
(***************************************************************************)
\* the seeds f"{pid}|{week_id}|diet|{nonce}" of the passes of the model
DietSeeds ==
    {_sha_seed(pid, week_id, "diet", nonce) :
        pid \in Pids, week_id \in Weeks, nonce \in 0..(MaxNonce + RecursionLimit)}
\* the starts at which a window of 4 names fits into the pool
ValidStarts == 0..(Len(SAUDI_MEAL_NAMES) - 4)
\* the names of a returned diet are the window at the offset of its last pass
WindowOf(seed) == [i \in Slots |-> ChosenName(NameOffset(seed), i)]

\* C29: diversify_meals chooses its window of 4 consecutive names from every
\* valid start 0..len(pool)-4 of the 13-label pool: the window never reaches past
\* the end of the pool, and every start and each of the 13 labels, the last one
\* included, is chosen for some draw.
C29_EveryStartEveryLabel ==
    /\ \A seed \in DietSeeds : NameOffset(seed) \in ValidStarts
    /\ Returned =>
          \A i \in Slots :
              obj.names[i].s =
                  WindowOf(_sha_seed(dargs.pid, dargs.week_id, "diet", dargs.nonce))[i]
    /\ \A start \in ValidStarts : \E seed \in DietSeeds : NameOffset(seed) = start
    /\ \A n \in 1..Len(SAUDI_MEAL_NAMES) :
          \E seed \in DietSeeds, i \in Slots : WindowOf(seed)[i] = SAUDI_MEAL_NAMES[n]

(***************************************************************************)
(* What a call of diversify_meals writes                                   *)
(***************************************************************************)
\* the mapping get_diet_from_ace hands to diversify_meals
DiversifyInput(raw) == ensure_diet_shape(raw)

\* C30: diversify_meals updates its input mapping in place and returns it: after
\* every pass the 4 meal names, the 24 per-meal fields and the 6 totals hold the
\* values of the pass, every other key of the input (the Note) has the value the
\* input had and no key was added or removed, and no step of a call changes the
\* persona or the stored diet passed as last_week_obj.
C30_WritesSchemaFieldsOnly ==
    [][dpc' \in {"cand", "done"} =>
          /\ DOMAIN obj' = DOMAIN DiversifyInput(dargs'.raw)
          /\ obj'.note = DiversifyInput(dargs'.raw).note
          /\ SchemaFields(obj') =
                SchemaFields(DiversifyPass(DiversifyInput(dargs'.raw), dargs'.pid,
                                           dargs'.week_id, dargs'.persona, dargs'.nonce))
          /\ dargs'.persona = PersonaOf(dargs'.pid)
          /\ dpc \in {"cand", "done"} => dargs'.persona = dargs.persona
          /\ dargs'.last = "stored" => stored' = stored]_vars

\* a returned diet that kept the provider's note through a recursion while its
\* names and totals were overwritten, with last week's diet still as it was stored
C30_Witness ==
    /\ Returned
    /\ depth > 0
    /\ dargs.last = "stored"
    /\ obj.note = "Provider note."
    /\ obj.names # DiversifyInput(dargs.raw).names
    /\ obj.total # DiversifyInput(dargs.raw).total
    /\ \A i \in Slots : obj.names[i].s # stored.diet.names[i].s

====
